---- MODULE Spec2Model ----
(***************************************************************************)
(* Model of kirk's scheduling engine (libkirk/scheduler.py):               *)
(*   SuiteScheduler._run_suite  - reboot-and-resume loop of one suite      *)
(*   TestScheduler.schedule     - parallel group, then sequential group    *)
(*   TestScheduler._run_test    - one task per test                        *)
(* and of the SUT that runs commands on the host (libkirk/host.py):        *)
(*   HostSUT.communicate, stop, run_command, fetch_file                    *)
(* asyncio is modelled at the level of coroutines: a step runs a coroutine *)
(* from one await to the next; task.cancel() only requests cancellation,   *)
(* the CancelledError is delivered by a later step at the await the task   *)
(* is suspended on; awaiting a gather of tasks resumes on the first child  *)
(* that ends with an exception (or when all children are done).  The SUT   *)
(* and the framework are the environment: command, taint reads and ping    *)
(* answer with any of the outcomes their contract allows.                  *)
(***************************************************************************)
EXTENDS Integers, Sequences, FiniteSets, TLC

\* ------------------------------------------------------------- bounds
NumTests == 3
MaxWorkers == 2
SuiteTimeout == 2
MaxTime == 3
MaxStops == 2
MaxCmds == 2
MaxHostStops == 2
MaxComms == 2
MaxFetches == 2
\* HostSUT.BUFFSIZE, 1024 in the source, scaled down
BUFFSIZE == 2
\* longest output a command writes
MaxOut == 7
\* largest retries given to ensure_communicate
MaxRetries == 4
\* TestScheduler.schedule calls made by callers of its own
MaxSchedules == 2
\* longest list given to a schedule call that is rejected
MaxJobs == 2
\* get_tainted_info calls made by concurrent callers, and the SUT objects of
\* the process they are made on
MaxCallers == 4
NumSUTs == 2
\* the bitmasks 0..MaxTaint are read when the decoding is studied
MaxTaint == 127
\* lines of output before the summary, and largest counter of a summary
MaxLines == 2
MaxCount == 1

Tests == 1..NumTests
\* the run_command calls and the stop calls made on the HostSUT; the process
\* spawned by call c is process c
Cmds == 1..MaxCmds
HostStops == 1..MaxHostStops
\* the fetch_file calls made on the HostSUT
Fetches == 1..MaxFetches
\* the command ping gives, and the commands given to run_command
PingCommand == "test ."
Commands == {"", PingCommand}
\* suite.tests: the tests of the suite, in suite order (test.name = its number)
SuiteTests == [i \in 1..NumTests |-> i]

\* values get_tainted_info may return as bitmask, return codes of a command
TaintCodes == {0, 1}
CmdRetCodes == {0}

\* TestScheduler.STATUS_OK .. KERNEL_TIMEOUT
STATUS_OK == 0
TEST_TIMEOUT == 1
KERNEL_PANIC == 2
KERNEL_TAINTED == 3
KERNEL_TIMEOUT == 4

KernelErrors == {"KernelPanicError", "KernelTaintedError", "KernelTimeoutError"}
\* KirkException and its subclasses reaching TestScheduler.schedule
KirkErrors == KernelErrors \cup {"SUTError"}

VARIABLES
    \* ---- configuration (set at construction, never changed)
    parallelizable,   \* Test.parallelizable of each test
    force_parallel,   \* TestScheduler._force_parallel
    \* ---- SuiteScheduler
    suite_pc,         \* position of SuiteScheduler.schedule/_run_suite
    tests_left,       \* _run_suite: tests_left
    tests_results,    \* _run_suite: tests_results
    s_results,        \* SuiteScheduler._results (tests of each SuiteResults)
    s_stop,           \* SuiteScheduler._stop
    s_stopped,        \* SuiteScheduler._stopped
    suite_exc,        \* exception leaving _run_suite ("none" if none)
    start_t,          \* _run_suite: start_t of the current schedule call
    \* ---- TestScheduler
    spc,              \* position of TestScheduler.schedule
    ts_results,       \* TestScheduler._results
    ts_tasks,         \* TestScheduler._tasks
    ts_stop,          \* TestScheduler._stop
    ts_stopped,       \* TestScheduler._stopped
    seq_rest,         \* _run_and_wait: tests not yet created as task
    cur,              \* _run_and_wait: test of the task being awaited (0: none)
    gexc,             \* exception set on the gather of _run_parallel
    err,              \* schedule: err caught by except KirkException
    sched_cancel,     \* the schedule call was cancelled by wait_for
    sched_out,        \* how the last schedule call ended
    task,             \* the task of each test: _run_test position and locals
    \* ---- caller of stop()
    stop_pc,          \* position of SuiteScheduler.stop
    stop_tasks,       \* tasks gathered by TestScheduler.stop
    stop_calls,       \* calls of stop made so far
    \* ---- SUT and time
    sut_running,      \* the SUT session is running
    rb_log,           \* calls made by the current/last _restart_sut
    now,              \* time.time(), in ticks spent running tests
    \* ---- HostSUT (host.py)
    h_running,        \* HostSUT._running
    h_stop,           \* HostSUT._stop
    h_procs,          \* HostSUT._procs
    h_fetch,          \* HostSUT._fetch_lock is locked by a fetch_file call
    h_proc,           \* each process: "none", "alive", "killed", "exited"
    h_cmd,            \* position of each run_command call
    h_ret,            \* how each run_command call ended
    h_st,             \* position of each stop call
    h_wait,           \* processes whose wait() each stop call gathers
    h_sout,           \* how each stop call ended
    h_comm,           \* how the last communicate call ended
    h_comms,          \* communicate calls made so far
    h_sessions,       \* sessions opened by communicate and not stopped
    h_arg,            \* command of each run_command call ("-": not called)
    h_fpc,            \* position of each fetch_file call
    h_fret,           \* how each fetch_file call ended
    h_isfile,         \* os.path.isfile(target_path) of each fetch_file call
    h_locked,         \* history: the fetch lock was held all through the call
    r_pc,             \* run_command's read loop: "read", "wait", "done"
    r_stdout,         \* the output run_command accumulated
    r_panic,          \* its local variable panic
    r_ret,            \* how it ended
    r_reaped,         \* its finally removed, killed and awaited the process
    e_pc,             \* ensure_communicate: "idle", "try", "stop", "done"
    e_arg,            \* its argument retries
    e_retries,        \* retries after max(retries, 1)
    e_retry,          \* the loop variable retry
    e_comm,           \* communicate calls made
    e_stops,          \* stop calls made
    e_hist,           \* history: how each communicate call ended
    e_out,            \* how it ended: the exception and the attempt it is from
    x_pc,             \* one _run_test call: "taint1", "cmd", "taint2", "ping",
                      \* "save", "end", "done"
    x_c1,             \* tainted_code1 (-1: not read)
    x_c2,             \* tainted_code2 (-1: not read)
    x_cmd,            \* how wait_for(run_command(...)) ended
    x_ping,           \* how wait_for(ping(), 10) ended
    x_data,           \* test_data as run_command returned it
    x_sink,           \* iobuffer.stdout
    x_status,         \* status
    x_result,         \* what read_result was given and _results holds
    x_events,         \* events fired after the command
    x_raised,         \* the exception that left _run_test ("ok": it returned)
    sched_pending,    \* jobs of the schedule call awaiting the lock, or << >>
    v_arg,            \* the last rejected schedule call: scheduler and jobs
    v_out,            \* the exception it raised
    \* ---- SUT.get_tainted_info (sut.py)
    t_pc,             \* position of each call: "idle", "wait", "read", "done"
    t_obj,            \* the SUT object each call is made on (0: not called)
    t_out,            \* how each call ended: "read", "cached", "SUTError"
    t_val,            \* the tuple each call returned
    t_rc,             \* ret["returncode"] of the read each call made
    t_stdout,         \* ret["stdout"] of the read each call made
    t_locked,         \* SUT._tainted_lock is locked
    t_waiters,        \* the calls waiting for SUT._tainted_lock, in order
    t_status,         \* SUT._tainted_status: the items of the queue
    t_last,           \* history: the tuple put last in the queue
    \* ---- SUT.get_info (sut.py)
    g_pc,             \* position of the call: "idle", "gather", "done"
    g_how,            \* history: how the run_command of each _run_cmd ended
    g_std,            \* what each _run_cmd returned
    g_info,           \* the dictionary get_info returned
    \* ---- LTPFramework.read_result (ltp.py)
    rr_pc,            \* position of the call: "idle", "done"
    rr_stdout,        \* its argument stdout
    rr_result,        \* the TestResults it returned
    \* ---- history (observers, never read by the program)
    reboots,          \* _restart_sut calls
    kerr_calls,       \* schedule calls that ended with a kernel-class error
    sched_calls,      \* TestScheduler.schedule calls started
    tmo_seen          \* the suite timeout was raised by wait_for

vars == << parallelizable, force_parallel, suite_pc, tests_left, tests_results,
           s_results, s_stop, s_stopped, suite_exc, start_t, spc, ts_results,
           ts_tasks, ts_stop, ts_stopped, seq_rest, cur, gexc, err,
           sched_cancel, sched_out, task, stop_pc, stop_tasks, stop_calls,
           sut_running, rb_log, now, reboots, kerr_calls, sched_calls,
           tmo_seen, h_running, h_stop, h_procs, h_fetch, h_proc, h_cmd,
           h_ret, h_st, h_wait, h_sout, h_comm, h_comms, h_sessions,
           h_arg, h_fpc, h_fret, h_isfile, h_locked, r_pc, r_stdout, r_panic, r_ret, r_reaped,
           e_pc, e_arg, e_retries, e_retry, e_comm, e_stops, e_hist, e_out,
           x_pc, x_c1, x_c2, x_cmd, x_ping, x_data, x_sink, x_status,
           x_result, x_events, x_raised, sched_pending, v_arg, v_out,
           t_pc, t_obj, t_out, t_val, t_rc, t_stdout, t_locked, t_waiters,
           t_status, t_last, g_pc, g_how, g_std, g_info, rr_pc, rr_stdout,
           rr_result >>

cfgVars == << parallelizable, force_parallel >>
\* the schedule calls of other callers
callVars == << sched_pending, v_arg, v_out >>
suiteVars == << suite_pc, tests_left, tests_results, s_results, suite_exc,
                start_t >>
stopVars == << stop_pc, stop_tasks, stop_calls, s_stop, s_stopped, ts_stop,
               ts_stopped >>
schedVars == << spc, ts_tasks, seq_rest, cur, err, sched_cancel, sched_out >>
sutVars == << sut_running, rb_log >>
fetchVars == << h_fetch, h_fpc, h_fret, h_isfile, h_locked >>
readVars == << r_pc, r_stdout, r_panic, r_ret, r_reaped >>
ensureVars == << e_pc, e_arg, e_retries, e_retry, e_comm, e_stops, e_hist,
                e_out >>
\* the functions studied on their own
testVars == << x_pc, x_c1, x_c2, x_cmd, x_ping, x_data, x_sink, x_status,
              x_result, x_events, x_raised >>
taintVars == << t_pc, t_obj, t_out, t_val, t_rc, t_stdout, t_locked, t_waiters,
               t_status, t_last >>
\* the functions of sut.py and ltp.py studied on their own
infoVars == << g_pc, g_how, g_std, g_info >>
resultVars == << rr_pc, rr_stdout, rr_result >>
moreVars == << taintVars, infoVars, resultVars >>
unitVars == << readVars, ensureVars, testVars, moreVars >>
sessionVars == << h_running, h_stop, h_procs, fetchVars, h_proc, h_cmd, h_ret,
                 h_st, h_wait, h_sout, h_comm, h_comms, h_sessions, h_arg >>
hostVars == << sessionVars, unitVars >>
histVars == << reboots, sched_calls, tmo_seen >>
schedulerVars == << cfgVars, callVars, suiteVars, stopVars, schedVars, sutVars, histVars,
                   ts_results, gexc, task, now, kerr_calls >>
\* everything but the HostSUT
engineVars == << schedulerVars, unitVars >>
\* everything but run_command's read loop
readFrame == << schedulerVars, sessionVars, ensureVars, testVars, moreVars >>
\* everything but ensure_communicate
ensureFrame == << schedulerVars, sessionVars, readVars, testVars, moreVars >>
\* everything but the one _run_test call
testFrame == << schedulerVars, sessionVars, readVars, ensureVars, moreVars >>
\* everything but get_tainted_info
taintFrame == << schedulerVars, sessionVars, readVars, ensureVars, testVars,
                infoVars, resultVars >>
\* everything but get_info
infoFrame == << schedulerVars, sessionVars, readVars, ensureVars, testVars,
               taintVars, resultVars >>
\* everything but read_result
resultFrame == << schedulerVars, sessionVars, readVars, ensureVars, testVars,
                 taintVars, infoVars >>

\* ------------------------------------------------------------ helpers
Range(s) == {s[i] : i \in 1..Len(s)}

RECURSIVE SelectSeq2(_, _)
\* [x for x in s if x in keep], order kept
SelectSeq2(s, keep) ==
    IF s = << >> THEN << >>
    ELSE IF Head(s) \in keep THEN << Head(s) >> \o SelectSeq2(Tail(s), keep)
         ELSE SelectSeq2(Tail(s), keep)

\* ----------------------------------------------------- faulty variants
\* Each is a plausible fault of the definition named in its comment; a property
\* below is expected to fail when the definition is replaced by its variant.

\* of SkipAll: the tests left at the suite timeout get no result
SkipNone(left) == << >>

\* of RecordResult: the result is appended twice
RecordTwice(res, r) == Append(Append(res, r), r)

\* of RecordResult: the result is not appended before the error is raised
RecordNothing(res, r) == res

\* of Extend: the accumulated results are replaced by those of the last call
Overwrite(results, more) == more

\* of TestsLeft: the results are taken to be in suite order, the first
\* len(results) tests are dropped
TestsLeftByPosition(results) ==
    SubSeq(SuiteTests, Len(results) + 1, Len(SuiteTests))

\* of RebootErrors: only a kernel panic restarts the SUT
OnlyPanicReboots == {"KernelPanicError"}

\* of SemFree: the semaphore never blocks
SemAlwaysFree(t) == TRUE

\* of AllDone: the gather returns without waiting for its tasks
NoneAwaited(ts) == TRUE

\* of SequentialJobs: the sequential group is taken in reverse order
SequentialJobsReversed(jobs) ==
    LET seq == SelectSeq2(jobs, {t \in Tests :
                                     ~(force_parallel \/ parallelizable[t])})
    IN [i \in 1..Len(seq) |-> seq[Len(seq) + 1 - i]]

\* of CancelAll: no task is cancelled
CancelNone(ts) == task

\* of Extend: the results of the batch are not taken over
DropBatch(results, more) == results

\* of CanCommunicate: communicate does not look at the running state
AlwaysCommunicate == TRUE

\* get_tainted_info that reads the bits from the most significant one
NotReversed(s) == s

\* get_tainted_info that puts its tuple only in an empty queue
KeepFirst(queue, status) == IF queue = << >> THEN << status >> ELSE queue

\* get_tainted_info whose lock stays locked when the call raises
LockedOnRaise(raised) == raised

\* get_tainted_info that reads without its lock
TaintLockIgnored == TRUE

\* read_result that leaves broken as it was counted
BrokenKept(error, broken) == broken

\* _run_suite that hands every test of the suite to every schedule call
AllTestsLeft(results) == SuiteTests

\* _run_test that raises for every status but STATUS_OK
TimeoutRaises(status) ==
    IF status = STATUS_OK THEN "ok" ELSE "KernelTimeoutError"

\* _run_test that does not ping after a test timeout
PingIgnored(replied) == TEST_TIMEOUT

\* _run_test that does not compare the taint bitmasks
NeverTainted(c1, c2) == STATUS_OK

\* schedule that keeps the results of the call before
NotCleared(results) == results

\* schedule that takes any list
AnyJobs(jobs, class) == "none"

\* ensure_communicate that stops and goes on after every failure
NeverLastRetry(retry, retries) == FALSE

\* fetch_file without its lock
FetchLockIgnored == TRUE

\* run_command that checks neither its command nor the session
NoValidation(command) == "none"

\* of StopFinally: the flags are cleared only when stop returns normally
ClearedOnReturn(s, out) ==
    /\ h_stop' = (out # "ok")
    /\ h_running' = (out # "ok")
    /\ h_sessions' = IF out = "ok" THEN 0 ELSE h_sessions
    /\ h_st' = [h_st EXCEPT ![s] = "done"]
    /\ h_sout' = [h_sout EXCEPT ![s] = out]

\* of LockFree: stop does not wait for the lock of schedule
LockAlwaysFree == TRUE

\* of SuiteLocked: the lock of SuiteScheduler.schedule is held only while a
\* batch is being scheduled
LockedWhileScheduling == suite_pc = "sched"

\* a task that does not exist
NoTask == [st |-> "none", status |-> STATUS_OK, creq |-> FALSE, out |-> "none"]
\* a task just created by asyncio.Task()/create_task(): not started yet
NewTask == [NoTask EXCEPT !.st = "wait"]

\* ------------------------------------------------- TestScheduler._run_test
\* A task is "wait" (created, not yet past "async with sem"), "run" (from
\* test_started to the end of the command, of the reads and of the ping that
\* follow it), "fire" (result appended, awaiting the event fired before the
\* raise or the return) or "done".  The awaits between which a task touches
\* nothing shared (kmsg, taint reads, command, ping, read_result) are one step:
\* a CancelledError delivered at any of them ends the task in the same way.

\* test goes to the parallel group of schedule (else to the sequential one)
IsPar(t) == force_parallel \/ parallelizable[t]

\* the task is inside "async with sem": from test_started to its end
Inside(t) == task[t].st \in {"run", "fire"}

Exceptional(out) == out \notin {"none", "ok", "skip"}

\* asyncio.Semaphore(self._max_workers) of _run_parallel,
\* asyncio.Semaphore(1) of _run_and_wait
SemSize(t) == IF IsPar(t) THEN MaxWorkers ELSE 1

\* the semaphore of t's group can be acquired
SemFree(t) ==
    Cardinality({u \in Tests : IsPar(u) = IsPar(t) /\ Inside(u)}) < SemSize(t)

\* the exception raised at the end of _run_test for a status
ErrorOf(status) ==
    CASE status = KERNEL_TAINTED -> "KernelTaintedError"
      [] status = KERNEL_PANIC -> "KernelPanicError"
      [] status = KERNEL_TIMEOUT -> "KernelTimeoutError"
      [] OTHER -> "ok"

\* Framework.read_result(test, stdout, returncode, exec_time) for an output
\* without summary and markers: the counters follow the return code
read_result(t, rc) ==
    [test |-> t, retcode |-> rc,
     passed |-> IF rc = 0 THEN 1 ELSE 0,
     failed |-> IF rc \notin {0, 4, 32, -1} THEN 1 ELSE 0,
     broken |-> IF rc = -1 THEN 1 ELSE 0,
     skipped |-> IF rc = 32 THEN 1 ELSE 0,
     warnings |-> IF rc = 4 THEN 1 ELSE 0]

\* the task of t ends with outcome out; a gather awaited by schedule takes the
\* first exception of its children
TaskEnd(t, out) ==
    /\ task' = [task EXCEPT ![t] = [NoTask EXCEPT !.st = "done", !.out = out]]
    /\ gexc' = IF spc = "par" /\ IsPar(t) /\ gexc = "none" /\ Exceptional(out)
               THEN out ELSE gexc

\* the task can take a step of its own (it exists and no cancel is pending)
CanStep(t, st) == task[t].st = st /\ ~task[t].creq

taskFrame == << cfgVars, hostVars, callVars, suiteVars, stopVars, schedVars, sutVars,
                histVars, kerr_calls, now >>

\* async with sem: / if self._stop: return None / fire("test_started");
\* _write_kmsg; tainted_code1 = _get_tainted_status(); run_command starts
Enter(t) ==
    /\ CanStep(t, "wait")
    /\ SemFree(t)
    /\ IF ts_stop
       THEN TaskEnd(t, "skip")
       ELSE /\ task' = [task EXCEPT ![t].st = "run"]
            /\ UNCHANGED gexc
    /\ UNCHANGED << taskFrame, ts_results >>

\* the first get_tainted_info raises SUTError (sut.py: the read failed): no
\* except clause of _run_test catches it, the error ends the task
EnterTaintFails(t) ==
    /\ CanStep(t, "wait")
    /\ SemFree(t)
    /\ ~ts_stop
    /\ TaskEnd(t, "SUTError")
    /\ UNCHANGED << taskFrame, ts_results >>

\* status after the second taint read: if tainted_code2 != tainted_code1
TaintStatus(c1, c2) == IF c2 # c1 THEN KERNEL_TAINTED ELSE STATUS_OK

\* status after the ping that follows a test timeout
PingStatus(replied) == IF replied THEN TEST_TIMEOUT ELSE KERNEL_TIMEOUT

\* the returncode of the result: test_data is replaced by the synthetic one
\* if status not in [STATUS_OK, KERNEL_TAINTED]
ResultCode(status, rc) ==
    IF status \notin {STATUS_OK, KERNEL_TAINTED} THEN -1 ELSE rc

\* self._results.append(results)
RecordResult(res, r) == Append(res, r)

\* results = await read_result(...); self._results.append(results); the event
\* before the raise (or test_completed) is awaited
SaveResult(t, status, rc) ==
    /\ ts_results' = RecordResult(ts_results, read_result(t, ResultCode(status, rc)))
    /\ task' = [task EXCEPT ![t].st = "fire", ![t].status = status]
    /\ UNCHANGED << taskFrame, gexc >>

\* run_command returned test_data within the timeout; c1 and c2 are what
\* get_tainted_info returned before and after the command
CmdReturns(t) ==
    /\ CanStep(t, "run")
    /\ \E rc \in CmdRetCodes, c1 \in TaintCodes, c2 \in TaintCodes :
          SaveResult(t, TaintStatus(c1, c2), rc)

\* run_command returned, the second get_tainted_info raises SUTError: no
\* except clause of _run_test catches it, the error ends the task
CmdReturnsTaintFails(t) ==
    /\ CanStep(t, "run")
    /\ TaskEnd(t, "SUTError")
    /\ UNCHANGED << taskFrame, ts_results >>

\* except KernelPanicError: status = KERNEL_PANIC
CmdPanics(t) ==
    /\ CanStep(t, "run")
    /\ SaveResult(t, KERNEL_PANIC, 0)

\* except asyncio.TimeoutError: status = TEST_TIMEOUT; wait_for(ping(), 10)
\* answers, or times out: status = KERNEL_TIMEOUT
CmdTimesOut(t) ==
    /\ CanStep(t, "run")
    /\ \E replied \in BOOLEAN : SaveResult(t, PingStatus(replied), 0)

\* raise KernelTaintedError/KernelPanicError/KernelTimeoutError, or
\* fire("test_completed") and return
Finish(t) ==
    /\ CanStep(t, "fire")
    /\ TaskEnd(t, ErrorOf(task[t].status))
    /\ UNCHANGED << taskFrame, ts_results >>

\* the CancelledError of a requested cancel is thrown at the task's await
Cancelled(t) ==
    /\ task[t].creq
    /\ task[t].st \notin {"none", "done"}
    /\ TaskEnd(t, "CancelledError")
    /\ UNCHANGED << taskFrame, ts_results >>

RunTest(t) ==
    \/ Enter(t) \/ EnterTaintFails(t)
    \/ CmdReturns(t) \/ CmdReturnsTaintFails(t) \/ CmdPanics(t) \/ CmdTimesOut(t)
    \/ Finish(t) \/ Cancelled(t)

\* ------------------------- one _run_test call, with its data (225-301)
\* return codes of a command, and outputs: what the command wrote and what
\* the sink RedirectTestStdout captured
RetCodes == {0, 1}
Outputs == {"", "out"}

\* test_data = None, and no result
NoData == [stdout |-> "", returncode |-> -2]

\* test_data of the result: the synthetic one "if status not in
\* [self.STATUS_OK, self.KERNEL_TAINTED]", with "stdout": iobuffer.stdout and
\* "returncode": -1
ResultData(status, data, sink) ==
    IF status \notin {STATUS_OK, KERNEL_TAINTED}
    THEN [stdout |-> sink, returncode |-> ResultCode(status, data.returncode)]
    ELSE [stdout |-> data.stdout,
          returncode |-> ResultCode(status, data.returncode)]

\* the event fired before the raise, or test_completed
EventOf(status) ==
    CASE status = KERNEL_TAINTED -> "kernel_tainted"
      [] status = KERNEL_PANIC -> "kernel_panic"
      [] status = KERNEL_TIMEOUT -> "sut_not_responding"
      [] OTHER -> "test_completed"

\* an exception no except clause of _run_test takes leaves it
TestRaises(exc) ==
    /\ x_pc' = "done"
    /\ x_raised' = exc

\* tainted_code1, _ = await self._get_tainted_status(): a bitmask, or the
\* SUTError of get_tainted_info
TaintRead1 ==
    /\ x_pc = "taint1"
    /\ \/ /\ \E c1 \in TaintCodes : x_c1' = c1
          /\ x_pc' = "cmd"
          /\ UNCHANGED x_raised
       \/ /\ TestRaises("SUTError")
          /\ UNCHANGED x_c1
    /\ UNCHANGED << testFrame, x_c2, x_cmd, x_ping, x_data, x_sink, x_status,
                    x_result, x_events >>

\* test_data = await asyncio.wait_for(run_command(...), timeout) returns
TestReturns ==
    /\ x_pc = "cmd"
    /\ x_cmd' = "ret"
    /\ \E out \in Outputs, rc \in RetCodes :
          /\ x_data' = [stdout |-> out, returncode |-> rc]
          /\ x_sink' = out
    /\ x_pc' = "taint2"
    /\ UNCHANGED << testFrame, x_c1, x_c2, x_ping, x_status, x_result,
                    x_events, x_raised >>

\* run_command raises KernelPanicError: status = self.KERNEL_PANIC
TestPanics ==
    /\ x_pc = "cmd"
    /\ x_cmd' = "KernelPanicError"
    /\ \E out \in Outputs : x_sink' = out
    /\ x_status' = KERNEL_PANIC
    /\ x_pc' = "save"
    /\ UNCHANGED << testFrame, x_c1, x_c2, x_ping, x_data, x_result, x_events,
                    x_raised >>

\* wait_for raises asyncio.TimeoutError: status = self.TEST_TIMEOUT; the ping
\* is awaited
TestTimesOut ==
    /\ x_pc = "cmd"
    /\ x_cmd' = "TimeoutError"
    /\ \E out \in Outputs : x_sink' = out
    /\ x_status' = PingStatus(TRUE)
    /\ x_pc' = "ping"
    /\ UNCHANGED << testFrame, x_c1, x_c2, x_ping, x_data, x_result, x_events,
                    x_raised >>

\* run_command raises a SUTError that is no KernelPanicError
TestFails ==
    /\ x_pc = "cmd"
    /\ x_cmd' = "SUTError"
    /\ TestRaises("SUTError")
    /\ UNCHANGED << testFrame, x_c1, x_c2, x_ping, x_data, x_sink, x_status,
                    x_result, x_events >>

\* tainted_code2, tainted_msg2 = await self._get_tainted_status(); if
\* tainted_code2 != tainted_code1: status = self.KERNEL_TAINTED
TaintRead2 ==
    /\ x_pc = "taint2"
    /\ \/ /\ \E c2 \in TaintCodes :
                /\ x_c2' = c2
                /\ x_status' = TaintStatus(x_c1, c2)
          /\ x_pc' = "save"
          /\ UNCHANGED x_raised
       \/ /\ TestRaises("SUTError")
          /\ UNCHANGED << x_c2, x_status >>
    /\ UNCHANGED << testFrame, x_c1, x_cmd, x_ping, x_data, x_sink, x_result,
                    x_events >>

\* await asyncio.wait_for(self._sut.ping(), timeout=10): the ping answers,
\* or "except asyncio.TimeoutError: status = self.KERNEL_TIMEOUT", or ping
\* raises SUTError
TestPing ==
    /\ x_pc = "ping"
    /\ \/ /\ \E replied \in BOOLEAN :
                /\ x_ping' = IF replied THEN "answer" ELSE "TimeoutError"
                /\ x_status' = PingStatus(replied)
          /\ x_pc' = "save"
          /\ UNCHANGED x_raised
       \/ /\ x_ping' = "SUTError"
          /\ TestRaises("SUTError")
          /\ UNCHANGED x_status
    /\ UNCHANGED << testFrame, x_c1, x_c2, x_cmd, x_data, x_sink, x_result,
                    x_events >>

\* the synthetic test_data if the status asks for it; results = await
\* read_result(...); self._results.append(results)
TestSave ==
    /\ x_pc = "save"
    /\ x_result' = ResultData(x_status, x_data, x_sink)
    /\ x_pc' = "end"
    /\ UNCHANGED << testFrame, x_c1, x_c2, x_cmd, x_ping, x_data, x_sink,
                    x_status, x_events, x_raised >>

\* the event of the status is fired and its error raised, or test_completed
\* is fired and _run_test returns
TestEnds ==
    /\ x_pc = "end"
    /\ x_events' = Append(x_events, EventOf(x_status))
    /\ TestRaises(ErrorOf(x_status))
    /\ UNCHANGED << testFrame, x_c1, x_c2, x_cmd, x_ping, x_data, x_sink,
                    x_status, x_result >>

\* ------------------------------------------------ TestScheduler.schedule
Done(t) == task[t].st = "done"
AllDone(ts) == \A t \in ts : Done(t)

\* the gather of _run_parallel has its result or exception set
GatherDone == gexc # "none" \/ AllDone({t \in Range(ts_tasks) : IsPar(t)})

\* task.cancel() on every task of ts that is not done
CancelAll(ts) ==
    [t \in Tests |-> IF t \in ts /\ task[t].st \notin {"none", "done"}
                     THEN [task[t] EXCEPT !.creq = TRUE] ELSE task[t]]

\* [test for test in jobs if test.parallelizable] (all jobs if force_parallel)
ParallelJobs(jobs) == SelectSeq2(jobs, {t \in Tests : IsPar(t)})
\* [test for test in jobs if not test.parallelizable]
SequentialJobs(jobs) == SelectSeq2(jobs, {t \in Tests : ~IsPar(t)})

\* finally: self._tasks.clear(); the lock is released; the call ends with out
ScheduleEnds(out) ==
    /\ spc' = "idle"
    /\ task' = [t \in Tests |-> IF Done(t) THEN NoTask ELSE task[t]]
    /\ gexc' = "none"
    /\ err' = "none"
    /\ ts_tasks' = << >>
    /\ sched_out' = out
    /\ cur' = 0
    /\ seq_rest' = << >>
    /\ kerr_calls' = IF out \in KernelErrors THEN kerr_calls + 1 ELSE kerr_calls

\* _run_and_wait(tests): create the task of the first test and await it;
\* with no test left schedule returns
RunAndWait(tests) ==
    IF tests = << >>
    THEN ScheduleEnds("ok")
    ELSE /\ spc' = "seq"
         /\ cur' = Head(tests)
         /\ seq_rest' = Tail(tests)
         /\ ts_tasks' = Append(ts_tasks, Head(tests))
         /\ task' = [task EXCEPT ![Head(tests)] = NewTask]
         /\ UNCHANGED << sched_out, kerr_calls, gexc, err >>

\* self._results.clear()
Cleared(results) == << >>

\* async with self._lock: tasks.clear(); results.clear(); _run_parallel(...)
\* up to its gather, or _run_and_wait(...) up to its first await
ScheduleStart ==
    /\ spc = "called"
    /\ ts_results' = Cleared(ts_results)
    /\ UNCHANGED << gexc, err >>
    /\ LET par == ParallelJobs(tests_left)
           seq == SequentialJobs(tests_left)
       IN IF par # << >>
          THEN /\ spc' = "par"
               /\ ts_tasks' = par
               /\ task' = [t \in Tests |-> IF t \in Range(par) THEN NewTask ELSE NoTask]
               /\ seq_rest' = seq
               /\ UNCHANGED << cur, sched_out >>
          ELSE /\ spc' = "seq"
               /\ cur' = Head(seq)
               /\ seq_rest' = Tail(seq)
               /\ ts_tasks' = << Head(seq) >>
               /\ task' = [t \in Tests |-> IF t = Head(seq) THEN NewTask ELSE NoTask]
               /\ UNCHANGED sched_out
    /\ UNCHANGED << cfgVars, hostVars, callVars, suiteVars, stopVars, sutVars, histVars,
                    now, sched_cancel, kerr_calls >>

schedFrame == << cfgVars, hostVars, callVars, suiteVars, stopVars, sutVars, histVars,
                 now, ts_results, sched_cancel >>

\* the gather of _run_parallel returned: _run_and_wait follows
ParallelDone ==
    /\ spc = "par" /\ ~sched_cancel
    /\ gexc = "none"
    /\ AllDone(Range(ts_tasks))
    /\ RunAndWait(seq_rest)
    /\ UNCHANGED schedFrame

\* except KirkException as err: cancel the tasks that are not done, then
\* await asyncio.gather(*self._tasks, return_exceptions=True)
CatchKirk(e) ==
    /\ err' = e
    /\ spc' = "handler"
    /\ task' = CancelAll(Range(ts_tasks))
    /\ UNCHANGED << ts_tasks, cur, seq_rest, sched_out, kerr_calls, gexc >>

\* faulty variant: the CancelledError is raised again whatever the stop flag
AlwaysReraise ==
    /\ ScheduleEnds("CancelledError")

\* except asyncio.CancelledError as err: if not self._stop: raise err
CatchCancelled ==
    /\ ScheduleEnds(IF ts_stop THEN "ok" ELSE "CancelledError")

\* the gather of _run_parallel raised the first exception of a child, or the
\* cancelled schedule task is resumed with CancelledError
ParallelRaises ==
    /\ spc = "par"
    /\ GatherDone
    /\ IF sched_cancel \/ gexc = "CancelledError"
       THEN CatchCancelled
       ELSE gexc \in KirkErrors /\ CatchKirk(gexc)
    /\ UNCHANGED schedFrame

\* "await task" of _run_and_wait is resumed: next test, or the task's exception
SequentialNext ==
    /\ spc = "seq"
    /\ Done(cur)
    /\ IF sched_cancel \/ task[cur].out = "CancelledError"
       THEN CatchCancelled
       ELSE IF task[cur].out \in KirkErrors
            THEN CatchKirk(task[cur].out)
            ELSE RunAndWait(seq_rest)
    /\ UNCHANGED schedFrame

\* the gather of the except block returned: if not self._stop: raise err.
\* A CancelledError delivered inside the except block is not caught there
HandlerDone ==
    /\ spc = "handler"
    /\ AllDone(Range(ts_tasks))
    /\ ScheduleEnds(IF sched_cancel THEN "CancelledError"
                    ELSE IF ts_stop THEN "ok" ELSE err)
    /\ UNCHANGED schedFrame

Schedule ==
    \/ ScheduleStart \/ ParallelDone \/ ParallelRaises
    \/ SequentialNext \/ HandlerDone

\* ------------------------------------------- SuiteScheduler._run_suite
\* the tests of the suite with no entry of their name in results, suite order:
\* for test in suite.tests: ... if not found: tests_left.append(test)
TestsLeft(results) ==
    SelectSeq2(SuiteTests,
               {t \in Tests : ~\E i \in 1..Len(results) : results[i].test = t})

\* TestResults(test=test, failed=0, passed=0, broken=0, skipped=1,
\*             warnings=0, exec_time=0.0, retcode=32, stdout="")
SkippedResult(t) ==
    [test |-> t, retcode |-> 32, passed |-> 0, failed |-> 0, broken |-> 0,
     skipped |-> 1, warnings |-> 0]

RECURSIVE SkipAll(_)
\* for test in tests_left: tests_results.append(TestResults(...))
SkipAll(left) ==
    IF left = << >> THEN << >>
    ELSE << SkippedResult(Head(left)) >> \o SkipAll(Tail(left))

\* finally: tests_results.extend(self._scheduler.results)
Extend(results, more) == results \o more

\* while not self._stop and tests_left: start_t = time.time();
\* wait_for(self._scheduler.schedule(tests_left), timeout=self._suite_timeout)
LoopNext(left) ==
    IF ~s_stop /\ left # << >>
    THEN /\ suite_pc' = "sched"
         /\ spc' = "called"
         /\ start_t' = now
         /\ sched_out' = "none"
         /\ sched_cancel' = FALSE
         /\ sched_calls' = sched_calls + 1
    ELSE /\ suite_pc' = "final"
         /\ UNCHANGED << spc, start_t, sched_out, sched_cancel, sched_calls >>

\* the end of one iteration without timeout: results extended, tests_left
\* recomputed, the while condition evaluated again
IterationEnd ==
    /\ tests_results' = Extend(tests_results, ts_results)
    /\ tests_left' = TestsLeft(tests_results')
    /\ LoopNext(tests_left')

\* SuiteScheduler.schedule(jobs): async with self._lock: results.clear();
\* create_task(_run_suite(suite)); fire("suite_started"); get_info()
SuiteSchedule ==
    /\ suite_pc = "idle"
    /\ suite_pc' = "start"
    /\ s_results' = << >>
    /\ UNCHANGED << cfgVars, hostVars, callVars, tests_left, tests_results, suite_exc,
                    start_t, stopVars, schedVars, ts_results, gexc, task,
                    sutVars, now, histVars, kerr_calls >>

\* info = await get_info() returned: the locals are set, the loop is entered
SuiteBegin ==
    /\ suite_pc = "start"
    /\ tests_results' = << >>
    /\ tests_left' = SuiteTests
    /\ LoopNext(tests_left')
    /\ UNCHANGED << cfgVars, hostVars, callVars, s_results, suite_exc, stopVars,
                    ts_tasks, seq_rest, cur, err, ts_results, gexc, task,
                    sutVars, now, reboots, tmo_seen, kerr_calls >>

Returned == suite_pc = "sched" /\ spc = "idle" /\ sched_out # "none"

\* what wait_for does once the schedule task it cancelled has ended: it
\* raises TimeoutError; when the task swallowed the cancellation and returned,
\* wait_for returns its result (Python >= 3.9) or raises (Python 3.8)
WaitForTimesOut ==
    IF ~sched_cancel THEN {FALSE}
    ELSE IF sched_out = "CancelledError" THEN {TRUE} ELSE BOOLEAN

\* wait_for returned: exec_times.append(...); finally; next iteration
ScheduleReturned ==
    /\ Returned
    /\ sched_out = "ok"
    /\ FALSE \in WaitForTimesOut
    /\ IterationEnd
    /\ UNCHANGED << cfgVars, hostVars, callVars, s_results, suite_exc, stopVars,
                    ts_tasks, seq_rest, cur, err, ts_results, gexc, task,
                    sutVars, now, reboots, tmo_seen, kerr_calls >>

\* the errors caught by "except (KernelPanicError, KernelTaintedError,
\* KernelTimeoutError)" of _run_suite
RebootErrors == KernelErrors

\* except (Kernel...Error): await self._restart_sut() is entered:
\* fire("sut_restart", ...)
KernelErrorCaught ==
    /\ Returned
    /\ sched_out \in RebootErrors
    /\ TRUE \notin WaitForTimesOut
    /\ suite_pc' = "rb_fire"
    /\ reboots' = reboots + 1
    /\ rb_log' = << >>
    /\ sched_out' = "none"
    /\ UNCHANGED << cfgVars, hostVars, callVars, tests_left, tests_results, s_results,
                    suite_exc, start_t, stopVars, spc, ts_tasks, seq_rest, cur,
                    err, sched_cancel, ts_results, gexc, task, sut_running,
                    now, sched_calls, tmo_seen, kerr_calls >>

\* _restart_sut: await self._scheduler.stop() (returns at "if not self._tasks"),
\* await self._sut.stop(iobuffer=iobuffer)
RestartStop ==
    /\ suite_pc = "rb_fire"
    /\ ts_tasks = << >>
    /\ rb_log' = << "scheduler.stop", "sut.stop" >>
    /\ sut_running' = FALSE
    /\ suite_pc' = "rb_comm"
    /\ UNCHANGED << cfgVars, hostVars, callVars, tests_left, tests_results, s_results,
                    suite_exc, start_t, stopVars, schedVars, ts_results, gexc,
                    task, now, histVars, kerr_calls >>

\* await self._sut.ensure_communicate(iobuffer=iobuffer) returned; finally;
\* next iteration
RestartCommunicate ==
    /\ suite_pc = "rb_comm"
    /\ rb_log' = Append(rb_log, "sut.ensure_communicate")
    /\ sut_running' = TRUE
    /\ IterationEnd
    /\ UNCHANGED << cfgVars, hostVars, callVars, s_results, suite_exc, stopVars,
                    ts_tasks, seq_rest, cur, err, ts_results, gexc, task, now,
                    reboots, tmo_seen, kerr_calls >>

\* ensure_communicate raised SUTError after its retries: finally extends the
\* results and the error leaves the loop
RestartFails ==
    /\ suite_pc = "rb_comm"
    /\ rb_log' = Append(rb_log, "sut.ensure_communicate")
    /\ tests_results' = Extend(tests_results, ts_results)
    /\ suite_exc' = "SUTError"
    /\ suite_pc' = "final"
    /\ UNCHANGED << cfgVars, hostVars, callVars, tests_left, s_results, start_t,
                    stopVars, schedVars, ts_results, gexc, task, sut_running,
                    now, histVars, kerr_calls >>

\* an exception of schedule that _run_suite does not catch: finally extends
\* the results and the error leaves the loop
ErrorPropagates ==
    /\ Returned
    /\ Exceptional(sched_out)
    /\ sched_out \notin RebootErrors
    /\ TRUE \notin WaitForTimesOut
    /\ tests_results' = Extend(tests_results, ts_results)
    /\ suite_exc' = sched_out
    /\ suite_pc' = "final"
    /\ sched_out' = "none"
    /\ UNCHANGED << cfgVars, hostVars, callVars, tests_left, s_results, start_t,
                    stopVars, spc, ts_tasks, seq_rest, cur, err, sched_cancel,
                    ts_results, gexc, task, sutVars, now, histVars,
                    kerr_calls >>

\* except asyncio.TimeoutError: fire("suite_timeout", ...) is awaited
TimeoutCaught ==
    /\ Returned
    /\ TRUE \in WaitForTimesOut
    /\ suite_pc' = "tmo_fire"
    /\ tmo_seen' = TRUE
    /\ sched_out' = "none"
    /\ UNCHANGED << cfgVars, hostVars, callVars, tests_left, tests_results, s_results,
                    suite_exc, start_t, stopVars, spc, ts_tasks, seq_rest, cur,
                    err, sched_cancel, ts_results, gexc, task, sutVars, now,
                    reboots, sched_calls, kerr_calls >>

\* timed_out = True; finally; tests_left recomputed; every test left gets the
\* skipped result; tests_left.clear(); break
TimeoutHandled ==
    /\ suite_pc = "tmo_fire"
    /\ LET res == Extend(tests_results, ts_results)
       IN tests_results' = res \o SkipAll(TestsLeft(res))
    /\ tests_left' = << >>
    /\ suite_pc' = "final"
    /\ UNCHANGED << cfgVars, hostVars, callVars, s_results, suite_exc, start_t, stopVars,
                    schedVars, ts_results, gexc, task, sutVars, now, histVars,
                    kerr_calls >>

\* finally: SuiteResults(suite=suite, tests=tests_results, ...);
\* fire("suite_completed"); self._results.append(suite_results); the lock of
\* SuiteScheduler.schedule is released
SuiteCompleted ==
    /\ suite_pc = "final"
    /\ s_results' = Append(s_results, tests_results)
    /\ suite_pc' = IF suite_exc = "none" THEN "done" ELSE "failed"
    /\ UNCHANGED << cfgVars, hostVars, callVars, tests_left, tests_results, suite_exc,
                    start_t, stopVars, schedVars, ts_results, gexc, task,
                    sutVars, now, histVars, kerr_calls >>

RunSuite ==
    \/ SuiteSchedule \/ SuiteBegin \/ ScheduleReturned \/ KernelErrorCaught
    \/ RestartStop \/ RestartCommunicate \/ RestartFails \/ ErrorPropagates
    \/ TimeoutCaught \/ TimeoutHandled \/ SuiteCompleted

\* ------------------------------------------------------ time and wait_for
\* the timer of wait_for(schedule(...), timeout=self._suite_timeout) is due
TimerDue ==
    /\ suite_pc = "sched"
    /\ spc \in {"par", "seq", "handler"}
    /\ ~sched_cancel
    /\ now - start_t >= SuiteTimeout

\* the steps of the event loop that wait for nothing outside the program
LoopStep ==
    \/ \E t \in Tests : Enter(t) \/ Finish(t) \/ Cancelled(t)
    \/ Schedule
    \/ RunSuite

\* time passes while a command or a ping of the suite's schedule call is in
\* flight and the event loop has nothing to run (its own steps take no time);
\* a due timer fires before more time passes
Tick ==
    /\ now < MaxTime
    /\ ~TimerDue
    /\ ~ENABLED LoopStep
    /\ suite_pc = "sched" /\ ~sched_cancel
    /\ \E t \in Tests : task[t].st = "run"
    /\ now' = now + 1
    /\ UNCHANGED << cfgVars, hostVars, callVars, suiteVars, stopVars, schedVars,
                    ts_results, gexc, task, sutVars, reboots, sched_calls,
                    tmo_seen, kerr_calls >>

\* the tasks a cancel() of the schedule task reaches: the children of the
\* future it awaits, unless that future is already done
CancelReach ==
    CASE spc = "par" /\ ~GatherDone -> Range(ts_tasks)
      [] spc = "seq" /\ ~Done(cur) -> {cur}
      [] spc = "handler" -> Range(ts_tasks)
      [] OTHER -> {}

\* wait_for: the timeout expired, the schedule task is cancelled
SuiteTimeoutExpires ==
    /\ TimerDue
    /\ sched_cancel' = TRUE
    /\ task' = CancelAll(CancelReach)
    /\ UNCHANGED << cfgVars, hostVars, callVars, suiteVars, stopVars, spc, ts_tasks,
                    seq_rest, cur, err, sched_out, ts_results, gexc, sutVars,
                    now, histVars, kerr_calls >>

\* ------------------------------------------------- stop (external caller)
\* every task of ts is done: its entry may already have been dropped from
\* self._tasks by the finally of schedule
Finished(ts) == \A t \in ts : task[t].st \in {"none", "done"}

\* self._lock of TestScheduler is free: no schedule call is inside it
LockFree == spc = "idle"

SuiteLocked == suite_pc \notin {"idle", "done", "failed"}

\* SuiteScheduler.stop(): if not self._lock.locked(): return; self._stop = True;
\* TestScheduler.stop(): if not self._tasks: return; self._stop = True;
\* cancel every task; gather(*self._tasks, return_exceptions=True) is awaited
StopCalled ==
    /\ stop_pc = "none"
    /\ stop_calls' = stop_calls + 1
    /\ IF ~SuiteLocked
       THEN /\ stop_pc' = "returned"
            /\ UNCHANGED << s_stop, ts_stop, stop_tasks, task >>
       ELSE /\ s_stop' = TRUE
            /\ IF ts_tasks = << >>
               THEN /\ stop_pc' = "suite_lock"
                    /\ UNCHANGED << ts_stop, stop_tasks, task >>
               ELSE /\ stop_pc' = "gather"
                    /\ ts_stop' = TRUE
                    /\ stop_tasks' = Range(ts_tasks)
                    /\ task' = CancelAll(Range(ts_tasks))
    /\ UNCHANGED << cfgVars, hostVars, callVars, suiteVars, s_stopped, ts_stopped,
                    schedVars, ts_results, gexc, sutVars, now, histVars,
                    kerr_calls >>

\* TestScheduler.stop: the gather returned; async with self._lock: pass waits
\* for the schedule call; finally: self._stop = False; self._stopped = True
StopTasksDone ==
    /\ stop_pc = "gather"
    /\ Finished(stop_tasks)
    /\ stop_pc' = "lock"
    /\ UNCHANGED << cfgVars, hostVars, callVars, suiteVars, s_stop, s_stopped, ts_stop,
                    ts_stopped, stop_tasks, stop_calls, schedVars, ts_results,
                    gexc, task, sutVars, now, histVars, kerr_calls >>

StopTestScheduler ==
    /\ stop_pc = "lock"
    /\ spc = "idle"
    /\ ts_stop' = FALSE
    /\ ts_stopped' = TRUE
    /\ stop_pc' = "suite_lock"
    /\ UNCHANGED << cfgVars, hostVars, callVars, suiteVars, s_stop, s_stopped,
                    stop_tasks, stop_calls, schedVars, ts_results, gexc, task,
                    sutVars, now, histVars, kerr_calls >>

\* SuiteScheduler.stop: async with self._lock: pass; finally:
\* self._stop = False; self._stopped = True
StopSuiteScheduler ==
    /\ stop_pc = "suite_lock"
    /\ ~SuiteLocked
    /\ s_stop' = FALSE
    /\ s_stopped' = TRUE
    /\ stop_pc' = "returned"
    /\ UNCHANGED << cfgVars, hostVars, callVars, suiteVars, ts_stop, ts_stopped,
                    stop_tasks, stop_calls, schedVars, ts_results, gexc, task,
                    sutVars, now, histVars, kerr_calls >>

Stop == StopCalled \/ StopTasksDone \/ StopTestScheduler \/ StopSuiteScheduler

\* ------------------------------- TestScheduler used without SuiteScheduler
\* a caller awaits TestScheduler.schedule(jobs) with the tests of the suite
DirectSchedule ==
    /\ suite_pc = "idle"
    /\ spc = "idle"
    /\ sched_calls = 0
    /\ spc' = "called"
    /\ tests_left' = SuiteTests
    /\ sched_out' = "none"
    /\ sched_calls' = sched_calls + 1
    /\ UNCHANGED << cfgVars, hostVars, callVars, suite_pc, tests_results, s_results,
                    suite_exc, start_t, stopVars, ts_tasks, seq_rest, cur, err,
                    sched_cancel, ts_results, gexc, task, sutVars, now,
                    reboots, tmo_seen, kerr_calls >>

\* TestScheduler.stop(): if not self._tasks: return; self._stop = True; cancel
\* every task; gather(*self._tasks, return_exceptions=True) is awaited
DirectStop ==
    /\ suite_pc = "idle"
    /\ stop_pc \in {"none", "returned"}
    /\ stop_calls < MaxStops
    /\ stop_calls' = stop_calls + 1
    /\ IF ts_tasks = << >>
       THEN /\ stop_pc' = "returned"
            /\ UNCHANGED << ts_stop, stop_tasks, task >>
       ELSE /\ stop_pc' = "gather"
            /\ ts_stop' = TRUE
            /\ stop_tasks' = Range(ts_tasks)
            /\ task' = CancelAll(Range(ts_tasks))
    /\ UNCHANGED << cfgVars, hostVars, callVars, suiteVars, s_stop, s_stopped,
                    ts_stopped, schedVars, ts_results, gexc, sutVars, now,
                    histVars, kerr_calls >>

\* TestScheduler.stop: async with self._lock: pass; finally:
\* self._stop = False; self._stopped = True; stop returns
DirectStopReturns ==
    /\ suite_pc = "idle"
    /\ stop_pc = "lock"
    /\ LockFree
    /\ ts_stop' = FALSE
    /\ ts_stopped' = TRUE
    /\ stop_pc' = "returned"
    /\ UNCHANGED << cfgVars, hostVars, callVars, suiteVars, s_stop, s_stopped,
                    stop_tasks, stop_calls, schedVars, ts_results, gexc, task,
                    sutVars, now, histVars, kerr_calls >>

\* ------------------------------------ schedule calls and their arguments
\* classes of the elements of a list given to schedule
JobClasses == {"Test", "Suite"}
\* lists given to schedule, as the classes of their elements
JobLists == UNION {[1..n -> JobClasses] : n \in 0..MaxJobs}

\* schedule(jobs): "if not jobs: raise ValueError"; "for job in jobs: if not
\* isinstance(job, class): raise ValueError"; "none" when the call goes on
JobsError(jobs, class) ==
    IF jobs = << >> THEN "ValueError"
    ELSE IF \E i \in 1..Len(jobs) : jobs[i] # class THEN "ValueError"
    ELSE "none"

\* the classes of a list of tests
ClassesOf(tests) == [i \in 1..Len(tests) |-> "Test"]

\* lists of tests given to TestScheduler.schedule by its callers
CallJobs == {SuiteTests, << NumTests >>}

\* everything a rejected schedule call leaves alone
rejectFrame == << cfgVars, hostVars, sched_pending, suiteVars, stopVars,
                  schedVars, sutVars, histVars, ts_results, gexc, task, now,
                  kerr_calls >>

\* TestScheduler.schedule(jobs) raises ValueError
TestScheduleRejected ==
    /\ \E jobs \in JobLists :
          /\ JobsError(jobs, "Test") # "none"
          /\ v_arg' = << "Test", jobs >>
          /\ v_out' = JobsError(jobs, "Test")
    /\ UNCHANGED rejectFrame

\* SuiteScheduler.schedule(jobs) raises ValueError
SuiteScheduleRejected ==
    /\ \E jobs \in JobLists :
          /\ JobsError(jobs, "Suite") # "none"
          /\ v_arg' = << "Suite", jobs >>
          /\ v_out' = JobsError(jobs, "Suite")
    /\ UNCHANGED rejectFrame

\* a caller awaits TestScheduler.schedule(jobs): the call enters "async with
\* self._lock", or waits for the lock while another call holds it
CallSchedule ==
    /\ suite_pc = "idle"
    /\ sched_calls < MaxSchedules
    /\ sched_pending = << >>
    /\ sched_calls' = sched_calls + 1
    /\ \E jobs \in CallJobs :
          /\ JobsError(ClassesOf(jobs), "Test") = "none"
          /\ IF LockFree
             THEN /\ spc' = "called"
                  /\ tests_left' = jobs
                  /\ sched_out' = "none"
                  /\ UNCHANGED sched_pending
             ELSE /\ sched_pending' = jobs
                  /\ UNCHANGED << spc, tests_left, sched_out >>
    /\ UNCHANGED << cfgVars, hostVars, v_arg, v_out, suite_pc, tests_results,
                    s_results, suite_exc, start_t, stopVars, ts_tasks,
                    seq_rest, cur, err, sched_cancel, ts_results, gexc, task,
                    sutVars, now, reboots, tmo_seen, kerr_calls >>

\* the lock was released: the call that waited for it enters it
CallAcquires ==
    /\ sched_pending # << >>
    /\ LockFree
    /\ spc' = "called"
    /\ tests_left' = sched_pending
    /\ sched_out' = "none"
    /\ sched_pending' = << >>
    /\ UNCHANGED << cfgVars, hostVars, v_arg, v_out, suite_pc, tests_results,
                    s_results, suite_exc, start_t, stopVars, ts_tasks,
                    seq_rest, cur, err, sched_cancel, ts_results, gexc, task,
                    sutVars, now, histVars, kerr_calls >>

\* ---------------------------------------------------- HostSUT (host.py)
\* A step runs a coroutine of HostSUT from one await that suspends to the
\* next: "await self.is_running" and "await self._kill_process(proc)" do not
\* suspend.  The processes are the environment: a process that is alive or
\* was sent SIGKILL exits at a step of its own.

\* communicate: "if await self.is_running: raise SUTError" is passed
CanCommunicate == ~h_running

\* communicate(): raise SUTError("SUT is running"), or self._running = True
Communicate ==
    /\ h_comms < MaxComms
    /\ h_comms' = h_comms + 1
    /\ IF CanCommunicate
       THEN /\ h_running' = TRUE
            /\ h_comm' = "ok"
            /\ h_sessions' = h_sessions + 1
       ELSE /\ h_comm' = "SUTError"
            /\ UNCHANGED << h_running, h_sessions >>
    /\ UNCHANGED << engineVars, h_arg, h_stop, h_procs, fetchVars, h_proc, h_cmd, h_ret,
                    h_st, h_wait, h_sout >>

\* os.killpg(os.getpgid(proc.pid), signal.SIGKILL) for every process of ps;
\* ProcessLookupError is passed over for a process that has exited
KillAll(ps) ==
    [c \in Cmds |-> IF c \in ps /\ h_proc[c] = "alive" THEN "killed"
                    ELSE h_proc[c]]

\* self._procs.remove(proc)
Remove(procs, c) == SelectSeq2(procs, Cmds \ {c})

\* stop: "if self._fetch_lock.locked()" is followed by a log call on
\* self._logging, an attribute HostSUT does not have
TeardownError == IF h_fetch THEN "AttributeError" ELSE "ok"

\* finally: self._stop = False; self._running = False; the call s ends with
\* out
StopFinally(s, out) ==
    /\ h_stop' = FALSE
    /\ h_running' = FALSE
    /\ h_sessions' = 0
    /\ h_st' = [h_st EXCEPT ![s] = "done"]
    /\ h_sout' = [h_sout EXCEPT ![s] = out]

\* stop(): if not await self.is_running: return; self._stop = True; every
\* process of self._procs is killed and the gather of their wait() awaited;
\* with no process, the fetch lock is looked at and the finally runs
HostStopCalled(s) ==
    /\ h_st[s] = "idle"
    /\ IF ~h_running
       THEN /\ h_st' = [h_st EXCEPT ![s] = "done"]
            /\ h_sout' = [h_sout EXCEPT ![s] = "ok"]
            /\ UNCHANGED << h_running, h_stop, h_proc, h_wait, h_sessions >>
       ELSE IF h_procs # << >>
            THEN /\ h_stop' = TRUE
                 /\ h_proc' = KillAll(Range(h_procs))
                 /\ h_wait' = [h_wait EXCEPT ![s] = Range(h_procs)]
                 /\ h_st' = [h_st EXCEPT ![s] = "wait"]
                 /\ UNCHANGED << h_running, h_sout, h_sessions >>
            ELSE /\ StopFinally(s, TeardownError)
                 /\ UNCHANGED << h_proc, h_wait >>
    /\ UNCHANGED << engineVars, h_arg, h_procs, fetchVars, h_cmd, h_ret, h_comm,
                    h_comms >>

\* the gather of proc.wait() returned: the fetch lock is looked at and the
\* finally runs
HostStopWaited(s) ==
    /\ h_st[s] = "wait"
    /\ \A c \in h_wait[s] : h_proc[c] = "exited"
    /\ StopFinally(s, TeardownError)
    /\ UNCHANGED << engineVars, h_arg, h_procs, fetchVars, h_proc, h_cmd, h_ret, h_wait,
                    h_comm, h_comms >>

\* the task awaiting stop is cancelled while the gather is awaited: the
\* finally runs and CancelledError leaves stop
HostStopCancelled(s) ==
    /\ h_st[s] = "wait"
    /\ StopFinally(s, "CancelledError")
    /\ UNCHANGED << engineVars, h_arg, h_procs, fetchVars, h_proc, h_cmd, h_ret, h_wait,
                    h_comm, h_comms >>

HostStop(s) == HostStopCalled(s) \/ HostStopWaited(s) \/ HostStopCancelled(s)

\* run_command: "if not command: raise ValueError", then "if not await
\* self.is_running: raise SUTError"; "none" when the call goes on
CommandError(command) ==
    IF command = "" THEN "ValueError"
    ELSE IF ~h_running THEN "SUTError" ELSE "none"

\* the call c is made with command: it raises at once, or
\* create_subprocess_shell(command, ...) is awaited
CallCommand(c, command) ==
    /\ h_cmd[c] = "idle"
    /\ h_arg' = [h_arg EXCEPT ![c] = command]
    /\ h_locked' = [h_locked EXCEPT ![c] = h_fetch]
    /\ IF CommandError(command) # "none"
       THEN /\ h_cmd' = [h_cmd EXCEPT ![c] = "done"]
            /\ h_ret' = [h_ret EXCEPT ![c] = CommandError(command)]
       ELSE /\ h_cmd' = [h_cmd EXCEPT ![c] = "spawn"]
            /\ UNCHANGED h_ret
    /\ UNCHANGED << engineVars, h_running, h_stop, h_procs, h_fetch, h_fpc,
                    h_fret, h_isfile, h_proc, h_st, h_wait, h_sout, h_comm, h_comms,
                    h_sessions >>

\* run_command(command, ...) is called
RunCommandCalled(c) == \E command \in Commands : CallCommand(c, command)

\* ping(): if not await self.is_running: raise SUTError("SUT is not
\* running"); ret = await self.run_command("test .")
PingCalled(c) == CallCommand(c, PingCommand)

\* create_subprocess_shell returned: self._procs.append(proc); the loop reads
\* the output of the process
Spawned(c) ==
    /\ h_cmd[c] = "spawn"
    /\ h_proc' = [h_proc EXCEPT ![c] = "alive"]
    /\ h_procs' = Append(h_procs, c)
    /\ h_cmd' = [h_cmd EXCEPT ![c] = "read"]
    /\ UNCHANGED << engineVars, h_arg, h_running, h_stop, fetchVars, h_ret, h_st,
                    h_wait, h_sout, h_comm, h_comms, h_sessions >>

\* the process is not alive any more: break; await proc.wait(); raise
\* KernelPanicError if the marker was read; finally: self._procs.remove(proc),
\* kill, wait; the call returns or raises
CommandEnds(c) ==
    /\ h_cmd[c] = "read"
    /\ h_proc[c] = "exited"
    /\ h_procs' = Remove(h_procs, c)
    /\ h_cmd' = [h_cmd EXCEPT ![c] = "done"]
    /\ \E panic \in BOOLEAN :
          h_ret' = [h_ret EXCEPT ![c] = IF panic THEN "KernelPanicError"
                                        ELSE "ok"]
    /\ UNCHANGED << engineVars, h_arg, h_running, h_stop, fetchVars, h_proc, h_st,
                    h_wait, h_sout, h_comm, h_comms, h_sessions >>

\* the task of run_command is cancelled in its loop: finally:
\* self._procs.remove(proc); the process is killed; proc.wait() is awaited
CommandCancelled(c) ==
    /\ h_cmd[c] = "read"
    /\ h_procs' = Remove(h_procs, c)
    /\ h_proc' = KillAll({c})
    /\ h_cmd' = [h_cmd EXCEPT ![c] = "reap"]
    /\ UNCHANGED << engineVars, h_arg, h_running, h_stop, fetchVars, h_ret, h_st,
                    h_wait, h_sout, h_comm, h_comms, h_sessions >>

\* proc.wait() of the finally returned: CancelledError leaves run_command
CommandReaped(c) ==
    /\ h_cmd[c] = "reap"
    /\ h_proc[c] = "exited"
    /\ h_cmd' = [h_cmd EXCEPT ![c] = "done"]
    /\ h_ret' = [h_ret EXCEPT ![c] = "CancelledError"]
    /\ UNCHANGED << engineVars, h_arg, h_running, h_stop, h_procs, fetchVars, h_proc,
                    h_st, h_wait, h_sout, h_comm, h_comms, h_sessions >>

RunCommand(c) ==
    \/ RunCommandCalled(c) \/ PingCalled(c) \/ Spawned(c) \/ CommandEnds(c)
    \/ CommandCancelled(c) \/ CommandReaped(c)

\* the process ends: its command is over, or the SIGKILL reached it
ProcessExits(c) ==
    /\ h_proc[c] \in {"alive", "killed"}
    /\ h_proc' = [h_proc EXCEPT ![c] = "exited"]
    /\ UNCHANGED << engineVars, h_arg, h_running, h_stop, h_procs, fetchVars, h_cmd,
                    h_ret, h_st, h_wait, h_sout, h_comm, h_comms, h_sessions >>

\* async with self._fetch_lock: can be entered
FetchLockFree == ~h_fetch

\* the fetch_file calls inside "async with self._fetch_lock"
Reading == {f \in Fetches : h_fpc[f] = "read"}

\* fetch_file: "if not os.path.isfile(target_path): raise SUTError", then
\* "if not await self.is_running: raise SUTError"; "none" when it goes on
FetchError(isfile) ==
    IF ~isfile THEN "SUTError"
    ELSE IF ~h_running THEN "SUTError" ELSE "none"

\* fetch_file(target_path) is called: it raises at once, or it enters
\* "async with self._fetch_lock" and reads, or it waits for the lock
FetchCalled(f) ==
    /\ h_fpc[f] = "idle"
    /\ \E isfile \in BOOLEAN :
          /\ h_isfile' = [h_isfile EXCEPT ![f] = isfile]
          /\ IF FetchError(isfile) # "none"
             THEN /\ h_fpc' = [h_fpc EXCEPT ![f] = "done"]
                  /\ h_fret' = [h_fret EXCEPT ![f] = FetchError(isfile)]
                  /\ UNCHANGED h_fetch
             ELSE IF FetchLockFree
                  THEN /\ h_fpc' = [h_fpc EXCEPT ![f] = "read"]
                       /\ h_fetch' = TRUE
                       /\ UNCHANGED h_fret
                  ELSE /\ h_fpc' = [h_fpc EXCEPT ![f] = "wait"]
                       /\ UNCHANGED << h_fetch, h_fret >>
    /\ UNCHANGED << engineVars, h_arg, h_running, h_stop, h_procs, h_proc,
                    h_cmd, h_ret, h_st, h_wait, h_sout, h_comm, h_comms,
                    h_sessions, h_locked >>

\* the lock was released: a waiting fetch_file enters it and reads
FetchAcquires(f) ==
    /\ h_fpc[f] = "wait"
    /\ FetchLockFree
    /\ h_fpc' = [h_fpc EXCEPT ![f] = "read"]
    /\ h_fetch' = TRUE
    /\ UNCHANGED << engineVars, h_arg, h_running, h_stop, h_procs, h_proc,
                    h_cmd, h_ret, h_st, h_wait, h_sout, h_comm, h_comms,
                    h_sessions, h_fret, h_isfile, h_locked >>

\* the read is over (the data, or SUTError for an IOError): the lock is
\* released
FetchEnds(f) ==
    /\ h_fpc[f] = "read"
    /\ h_fpc' = [h_fpc EXCEPT ![f] = "done"]
    /\ h_fetch' = FALSE
    /\ h_locked' = [c \in Cmds |-> h_locked[c] /\ h_cmd[c] = "done"]
    /\ \E ioerror \in BOOLEAN :
          h_fret' = [h_fret EXCEPT ![f] = IF ioerror THEN "SUTError"
                                          ELSE "ok"]
    /\ UNCHANGED << engineVars, h_arg, h_running, h_stop, h_procs, h_proc,
                    h_cmd, h_ret, h_st, h_wait, h_sout, h_comm, h_comms,
                    h_sessions, h_isfile >>

FetchFile(f) == FetchCalled(f) \/ FetchAcquires(f) \/ FetchEnds(f)

\* ------------------------------- run_command's read loop (host.py 162-198)
\* The marker "Kernel panic", scaled with BUFFSIZE to two characters
KernelPanic == << "K", "p" >>
\* the characters a command writes
Chars == {"K", "p", "a"}

\* what proc.stdout.read(self.BUFFSIZE) returns: at most BUFFSIZE characters
Chunks == UNION {[1..n -> Chars] : n \in 0..BUFFSIZE}

\* marker in text
Contains(text, marker) ==
    \E i \in 1..(Len(text) - Len(marker) + 1) :
       SubSeq(text, i, i + Len(marker) - 1) = marker

\* stdout[-2*self.BUFFSIZE:]
LastChars(text, n) ==
    IF Len(text) <= n THEN text ELSE SubSeq(text, Len(text) - n + 1, Len(text))

\* panic = "Kernel panic" in stdout[-2*self.BUFFSIZE:]
PanicSeen(stdout) == Contains(LastChars(stdout, 2 * BUFFSIZE), KernelPanic)

\* one iteration of the loop: a chunk is read and appended, panic is
\* assigned anew, and the loop ends when the process is not alive
ReadChunk ==
    /\ r_pc = "read"
    /\ \E line \in Chunks, alive \in BOOLEAN :
          /\ Len(r_stdout) + Len(line) <= MaxOut
          /\ r_stdout' = r_stdout \o line
          /\ r_panic' = PanicSeen(r_stdout')
          /\ r_pc' = IF alive THEN "read" ELSE "wait"
    /\ UNCHANGED << readFrame, r_ret, r_reaped >>

\* await proc.wait(); if panic: raise KernelPanicError(); the finally
\* removes the process from _procs, kills it and awaits it, and builds ret
ReadEnds ==
    /\ r_pc = "wait"
    /\ r_pc' = "done"
    /\ r_reaped' = TRUE
    /\ r_ret' = IF r_panic THEN "KernelPanicError" ELSE "ret"
    /\ UNCHANGED << readFrame, r_stdout, r_panic >>

\* ---------------------------- SUT.ensure_communicate (sut.py 142-165)
\* values of the argument retries
RetriesArgs == (-1)..MaxRetries

\* exceptions of communicate that are a KirkException
KirkExceptions == {"SUTError", "KirkException"}

\* max(retries, 1)
Max(a, b) == IF a >= b THEN a ELSE b

\* if retry >= retries - 1: raise err
LastRetry(retry, retries) == retry >= retries - 1

\* ensure_communicate ends with out
EnsureEnds(out) ==
    /\ e_pc' = "done"
    /\ e_out' = out

\* ensure_communicate(retries=retries): retries = max(retries, 1); the loop
\* starts with retry 0
EnsureCalled ==
    /\ e_pc = "idle"
    /\ \E retries \in RetriesArgs :
          /\ e_arg' = retries
          /\ e_retries' = Max(retries, 1)
    /\ e_retry' = 0
    /\ e_pc' = "try"
    /\ UNCHANGED << ensureFrame, e_comm, e_stops, e_hist, e_out >>

\* await self.communicate(iobuffer=iobuffer) returns: break
CommunicateReturns ==
    /\ e_pc = "try"
    /\ e_comm' = e_comm + 1
    /\ e_hist' = Append(e_hist, "ok")
    /\ EnsureEnds(<< "ok", e_comm' >>)
    /\ UNCHANGED << ensureFrame, e_arg, e_retries, e_retry, e_stops >>

\* communicate raises a KirkException: it is raised again at the last
\* retry, and otherwise self.stop is awaited
CommunicateFails ==
    /\ e_pc = "try"
    /\ e_comm' = e_comm + 1
    /\ \E exc \in KirkExceptions :
          /\ e_hist' = Append(e_hist, exc)
          /\ IF LastRetry(e_retry, e_retries)
             THEN EnsureEnds(<< exc, e_comm' >>)
             ELSE e_pc' = "stop" /\ UNCHANGED e_out
    /\ UNCHANGED << ensureFrame, e_arg, e_retries, e_retry, e_stops >>

\* communicate raises an exception that is no KirkException: no except
\* clause takes it
CommunicateBreaks ==
    /\ e_pc = "try"
    /\ e_comm' = e_comm + 1
    /\ e_hist' = Append(e_hist, "Exception")
    /\ EnsureEnds(<< "Exception", e_comm' >>)
    /\ UNCHANGED << ensureFrame, e_arg, e_retries, e_retry, e_stops >>

\* await self.stop(iobuffer=iobuffer) returns: the next iteration of
\* "for retry in range(retries)", or the end of the loop
StopReturned ==
    /\ e_pc = "stop"
    /\ e_stops' = e_stops + 1
    /\ IF e_retry + 1 < e_retries
       THEN /\ e_retry' = e_retry + 1
            /\ e_pc' = "try"
            /\ UNCHANGED e_out
       ELSE /\ EnsureEnds(<< "ok", e_comm >>)
            /\ UNCHANGED e_retry
    /\ UNCHANGED << ensureFrame, e_arg, e_retries, e_comm, e_hist >>

\* self.stop raises inside the except clause: its exception leaves
\* ensure_communicate
StopRaises ==
    /\ e_pc = "stop"
    /\ e_stops' = e_stops + 1
    /\ EnsureEnds(<< "StopError", e_comm >>)
    /\ UNCHANGED << ensureFrame, e_arg, e_retries, e_retry, e_comm, e_hist >>

\* ------------------------------------------------------- specification
\* --------------------------- SUT.get_tainted_info (sut.py 38-57, 236-274)
\* the get_tainted_info calls, and the SUT objects of the process
Callers == 1..MaxCallers
SUTs == 1..NumSUTs

\* TAINTED_MSG (the quotation marks of entry 12 are left out)
TAINTED_MSG ==
    << "proprietary module was loaded",
       "module was force loaded",
       "kernel running on an out of specification system",
       "module was force unloaded",
       "processor reported a Machine Check Exception (MCE)",
       "bad page referenced or some unexpected page flags",
       "taint requested by userspace application",
       "kernel died recently, i.e. there was an OOPS or BUG",
       "ACPI table overridden by user",
       "kernel issued warning",
       "staging driver was loaded",
       "workaround for bug in platform firmware applied",
       "externally-built (out-of-tree) module was loaded",
       "unsigned module was loaded",
       "soft lockup occurred",
       "kernel has been live patched",
       "auxiliary taint, defined for and used by distros",
       "kernel was built with the struct randomization plugin" >>

\* a string is the sequence of its characters
Whitespace == {" ", "\n", "\t"}
DigitChars == << "0", "1", "2", "3", "4", "5", "6", "7", "8", "9" >>

RECURSIVE lstrip(_)
lstrip(s) ==
    IF s # << >> /\ Head(s) \in Whitespace THEN lstrip(Tail(s)) ELSE s

RECURSIVE rstrip(_)
rstrip(s) ==
    IF s # << >> /\ s[Len(s)] \in Whitespace
    THEN rstrip(SubSeq(s, 1, Len(s) - 1))
    ELSE s

\* str.strip()
strip(s) == rstrip(lstrip(s))

\* str.isdigit(): not empty and made of digits
isdigit(s) == s # << >> /\ \A i \in 1..Len(s) : s[i] \in Range(DigitChars)

DigitValue(c) == CHOOSE d \in 0..9 : DigitChars[d + 1] = c

\* int(code) of a string of digits
RECURSIVE int(_)
int(s) ==
    IF s = << >> THEN 0
    ELSE 10 * int(SubSeq(s, 1, Len(s) - 1)) + DigitValue(s[Len(s)])

\* format(code, "b"): the binary digits, most significant first
RECURSIVE Binary(_)
Binary(n) ==
    IF n < 2 THEN << DigitChars[n + 1] >>
    ELSE Binary(n \div 2) \o << DigitChars[(n % 2) + 1] >>

RECURSIVE ZeroFill(_, _)
ZeroFill(s, width) ==
    IF Len(s) >= width THEN s ELSE ZeroFill(<< "0" >> \o s, width)

\* format(code, f"0{tainted_num}b"): at least width digits
Format(code, width) == ZeroFill(Binary(code), width)

\* [::-1]
Reversed(s) == [i \in 1..Len(s) |-> s[Len(s) + 1 - i]]

\* for i in range(0, tainted_num): if bits[i] == "1":
\* messages.append(TAINTED_MSG[i]); the loop from index i on
RECURSIVE Messages(_, _)
Messages(bits, i) ==
    IF i >= Len(TAINTED_MSG) THEN << >>
    ELSE (IF bits[i + 1] = "1" THEN << TAINTED_MSG[i + 1] >> ELSE << >>)
            \o Messages(bits, i + 1)

\* the messages of code
Decode(code) == Messages(Reversed(Format(code, Len(TAINTED_MSG))), 0)

\* the tuple (code, messages); sut is history: the object it was read from
TaintedStatus(code, messages, sut) ==
    [code |-> code, messages |-> messages, sut |-> sut]
NoStatus == TaintedStatus(-1, << >>, 0)

\* what /proc/sys/kernel/tainted holds for a bitmask: its decimal digits
RECURSIVE Decimal(_)
Decimal(n) ==
    IF n < 10 THEN << DigitChars[n + 1] >>
    ELSE Decimal(n \div 10) \o << DigitChars[(n % 10) + 1] >>

\* the bitmasks read when the decoding is studied: the small ones, and some
\* with bits at and beyond the end of the table
TaintValues == (0..MaxTaint) \cup {2^17, 2^18 - 1, 2^18, 2^18 + 5}
\* the outputs of "cat /proc/sys/kernel/tainted" for them, and outputs that
\* are no number
TaintOutputs ==
    {Decimal(n) \o << "\n" >> : n \in TaintValues}
        \cup {<< >>, << "\n" >>, << "-", "1", "\n" >>, << "x", "\n" >>,
              << "1", " ", "2", "\n" >>}
\* the (returncode, stdout) of the reads of concurrent callers
TaintReads ==
    {<< 0, << "0", "\n" >> >>, << 0, << "5", "\n" >> >>,
     << 0, << "x", "\n" >> >>, << 1, << "5", "\n" >> >>}

\* "if ret["returncode"] != 0: raise SUTError", then "if not code.isdigit():
\* raise SUTError(code)"; "none" when the call goes on
ReadError(rc, stdout) ==
    IF rc # 0 THEN "SUTError"
    ELSE IF ~isdigit(strip(stdout)) THEN "SUTError" ELSE "none"

\* if self._tainted_status.qsize() > 0: await self._tainted_status.get();
\* await self._tainted_status.put((code, messages))
Publish(queue, status) == << status >>

\* "async with self._tainted_lock" is left, by return or by raise
Unlock(raised) == FALSE

\* Lock.acquire takes the lock at once: it is not locked and nobody waits
TaintLockFree == ~t_locked /\ t_waiters = << >>

\* get_tainted_info is called on the object o: with the lock locked and an
\* item in the queue the item is taken and returned; otherwise "async with
\* self._tainted_lock" is entered and run_command awaited, or the lock waited
\* for
TaintCalled(k, o) ==
    /\ t_pc[k] = "idle"
    /\ t_obj' = [t_obj EXCEPT ![k] = o]
    /\ IF t_locked /\ Len(t_status) > 0
       THEN /\ t_pc' = [t_pc EXCEPT ![k] = "done"]
            /\ t_out' = [t_out EXCEPT ![k] = "cached"]
            /\ t_val' = [t_val EXCEPT ![k] = Head(t_status)]
            /\ t_status' = Tail(t_status)
            /\ UNCHANGED << t_locked, t_waiters >>
       ELSE IF TaintLockFree
            THEN /\ t_pc' = [t_pc EXCEPT ![k] = "read"]
                 /\ t_locked' = TRUE
                 /\ UNCHANGED << t_out, t_val, t_status, t_waiters >>
            ELSE /\ t_pc' = [t_pc EXCEPT ![k] = "wait"]
                 /\ t_waiters' = Append(t_waiters, k)
                 /\ UNCHANGED << t_out, t_val, t_status, t_locked >>
    /\ UNCHANGED << taintFrame, t_rc, t_stdout, t_last >>

\* the lock was released: the call that waits longest takes it and awaits
\* run_command
TaintAcquires(k) ==
    /\ t_pc[k] = "wait"
    /\ ~t_locked
    /\ t_waiters # << >> /\ Head(t_waiters) = k
    /\ t_pc' = [t_pc EXCEPT ![k] = "read"]
    /\ t_locked' = TRUE
    /\ t_waiters' = Tail(t_waiters)
    /\ UNCHANGED << taintFrame, t_obj, t_out, t_val, t_rc, t_stdout, t_status,
                    t_last >>

\* run_command("cat /proc/sys/kernel/tainted") returned rc and stdout:
\* SUTError is raised, or the code is decoded, the queue emptied, the tuple
\* put in it and returned; the lock is released
TaintReadEnds(k, rc, stdout) ==
    /\ t_pc[k] = "read"
    /\ t_pc' = [t_pc EXCEPT ![k] = "done"]
    /\ t_rc' = [t_rc EXCEPT ![k] = rc]
    /\ t_stdout' = [t_stdout EXCEPT ![k] = stdout]
    /\ IF ReadError(rc, stdout) # "none"
       THEN /\ t_out' = [t_out EXCEPT ![k] = ReadError(rc, stdout)]
            /\ t_locked' = Unlock(TRUE)
            /\ UNCHANGED << t_val, t_status, t_last >>
       ELSE LET code == int(strip(stdout))
                status == TaintedStatus(code, Decode(code), t_obj[k])
            IN  /\ t_out' = [t_out EXCEPT ![k] = "read"]
                /\ t_val' = [t_val EXCEPT ![k] = status]
                /\ t_status' = Publish(t_status, status)
                /\ t_last' = status
                /\ t_locked' = Unlock(FALSE)
    /\ UNCHANGED << taintFrame, t_obj, t_waiters >>

\* ------------------------------------------ SUT.get_info (sut.py 167-234)
\* the commands given to _run_cmd, in the order of the gather: $ID,
\* $VERSION_ID, uname -s -r -v, uname -m, uname -p, cat /proc/meminfo
Probes == 1..6
MemProbe == 6

\* a string is the sequence of its words and line ends; the output of the
\* first five commands
InfoOutputs == {<< "v", "\n" >>}
\* the outputs of "cat /proc/meminfo": both lines, one of them, none of them,
\* a MemTotal line without number, nothing
MemOutputs ==
    {<< "MemTotal:", "16 kB", "\n", "SwapTotal:", "8 kB", "\n" >>,
     << "MemTotal:", "16 kB", "\n" >>,
     << "SwapTotal:", "8 kB", "\n" >>,
     << "MemFree:", "4 kB", "\n" >>,
     << "MemTotal:", "kB", "\n", "SwapTotal:", "8 kB", "\n" >>,
     << >>}
ProbeOutputs(i) == IF i = MemProbe THEN MemOutputs ELSE InfoOutputs
\* the words that match \d+\s+kB
Sizes == {"16 kB", "8 kB", "4 kB"}

\* _run_cmd: stdout = "unknown"; the output without trailing whitespace is
\* returned for return code 0 only
Unknown == << "unknown" >>
CmdOutput(rc, stdout) == IF rc = 0 THEN rstrip(stdout) ELSE Unknown

\* re.search(key \s+ (\d+\s+kB), meminfo): the positions where it matches
Matches(key, meminfo) ==
    {i \in 1..(Len(meminfo) - 1) : meminfo[i] = key /\ meminfo[i + 1] \in Sizes}
\* the group of the first match, or the default
Group(key, meminfo, default) ==
    IF meminfo # << >> /\ Matches(key, meminfo) # {}
    THEN LET i == CHOOSE j \in Matches(key, meminfo) :
                     \A l \in Matches(key, meminfo) : j <= l
         IN  << meminfo[i + 1] >>
    ELSE default

\* memory = "unknown", replaced by the group of the MemTotal line
MemoryOf(meminfo) == Group("MemTotal:", meminfo, << "unknown" >>)
\* swap = "unkown", replaced by the group of the SwapTotal line
SwapOf(meminfo) == Group("SwapTotal:", meminfo, << "unkown" >>)

\* the dictionary ret
Info(std) ==
    [distro |-> std[1], distro_ver |-> std[2], kernel |-> std[3],
     arch |-> std[4], cpu |-> std[5], ram |-> MemoryOf(std[MemProbe]),
     swap |-> SwapOf(std[MemProbe])]
NoInfo == << >>

\* get_info is called: the six _run_cmd are gathered, each awaiting
\* wait_for(self.run_command(cmd), 1.5)
InfoCalled ==
    /\ g_pc = "idle"
    /\ g_pc' = "gather"
    /\ g_how' = [i \in Probes |-> "run"]
    /\ UNCHANGED << infoFrame, g_std, g_info >>

\* the run_command of probe i returned rc and stdout
ProbeReturns(i, rc, stdout) ==
    /\ g_pc = "gather"
    /\ g_how[i] = "run"
    /\ g_how' = [g_how EXCEPT ![i] = IF rc = 0 THEN "ok" ELSE "failed"]
    /\ g_std' = [g_std EXCEPT ![i] = CmdOutput(rc, stdout)]
    /\ UNCHANGED << infoFrame, g_pc, g_info >>

\* wait_for raised asyncio.TimeoutError for probe i: "unknown" is returned
ProbeTimesOut(i) ==
    /\ g_pc = "gather"
    /\ g_how[i] = "run"
    /\ g_how' = [g_how EXCEPT ![i] = "timeout"]
    /\ g_std' = [g_std EXCEPT ![i] = Unknown]
    /\ UNCHANGED << infoFrame, g_pc, g_info >>

\* the gather returned: the dictionary is built and returned
InfoReturns ==
    /\ g_pc = "gather"
    /\ \A i \in Probes : g_how[i] # "run"
    /\ g_pc' = "done"
    /\ g_info' = Info(g_std)
    /\ UNCHANGED << infoFrame, g_how, g_std >>

\* ------------------------------ LTPFramework.read_result (ltp.py 215-288)
\* stdout is the sequence of its lines; a line is a word and the number that
\* follows it (0 when none does)
Markers == {"TPASS", "TFAIL", "TSKIP", "TBROK", "TWARN"}
\* a colour code, matched by \u001b\[[0-9;]+[a-zA-Z]
Colour == "ESC[1m"
Line(word, n) == << word, n >>
OutputLines == {Line(w, 0) : w \in Markers \cup {Colour, "text"}}
SummaryWords == << "passed", "failed", "broken", "skipped", "warnings" >>

\* "Summary:" and the five counter lines; the block without its last line
Summary(counts) ==
    << Line("Summary:", 0) >> \o [i \in 1..5 |-> Line(SummaryWords[i], counts[i])]
Endings ==
    {<< >>}
       \cup {Summary(c) : c \in [1..5 -> 0..MaxCount]}
       \cup {SubSeq(Summary([i \in 1..5 |-> 1]), 1, 5)}
RECURSIVE LinesUpTo(_)
LinesUpTo(n) ==
    IF n = 0 THEN {<< >>}
    ELSE LinesUpTo(n - 1)
            \cup {Append(l, x) : l \in LinesUpTo(n - 1), x \in OutputLines}
\* the outputs given to read_result, and the return codes
Stdouts == {l \o e : l \in LinesUpTo(MaxLines), e \in Endings}
ResultCodes == {0, 4, 32, -1, 1, 2}

\* re.sub(colour code, '', stdout)
StripColours(stdout) == SelectSeq(stdout, LAMBDA l : l[1] # Colour)

\* the positions where the summary pattern matches
SummaryMatches(stdout) ==
    {i \in 1..(Len(stdout) - 5) :
        /\ stdout[i][1] = "Summary:"
        /\ \A j \in 1..5 : stdout[i + j][1] = SummaryWords[j]}

\* stdout.count(marker)
CountOf(stdout, marker) ==
    Cardinality({i \in 1..Len(stdout) : stdout[i][1] = marker})

\* if error: broken = 1
ErrorBroken(error, broken) == IF error THEN 1 ELSE broken

\* the counters read_result computes for stdout (colours removed) and retcode
Counters(stdout, retcode) ==
    LET error == retcode = -1
        counted == [passed |-> CountOf(stdout, "TPASS"),
                    failed |-> CountOf(stdout, "TFAIL"),
                    skipped |-> CountOf(stdout, "TSKIP"),
                    broken |-> CountOf(stdout, "TBROK"),
                    warnings |-> CountOf(stdout, "TWARN")]
        none == [passed |-> 0, failed |-> 0, skipped |-> 0, broken |-> 0,
                 warnings |-> 0]
        c == IF SummaryMatches(stdout) # {}
             THEN LET i == CHOOSE j \in SummaryMatches(stdout) :
                               \A l \in SummaryMatches(stdout) : j <= l
                  IN  [passed |-> stdout[i + 1][2],
                       failed |-> stdout[i + 2][2],
                       broken |-> stdout[i + 3][2],
                       skipped |-> stdout[i + 4][2],
                       warnings |-> stdout[i + 5][2]]
             ELSE IF counted # none THEN counted
             ELSE IF retcode = 0 THEN [none EXCEPT !.passed = 1]
             ELSE IF retcode = 4 THEN [none EXCEPT !.warnings = 1]
             ELSE IF retcode = 32 THEN [none EXCEPT !.skipped = 1]
             ELSE IF ~error THEN [none EXCEPT !.failed = 1]
             ELSE none
    IN  [c EXCEPT !.broken = ErrorBroken(error, c.broken)]

\* the TestResults (test and exec_time are handed through)
TestResults(stdout, retcode) ==
    LET c == Counters(StripColours(stdout), retcode)
    IN  [failed |-> c.failed, passed |-> c.passed, broken |-> c.broken,
         skipped |-> c.skipped, warnings |-> c.warnings, retcode |-> retcode,
         stdout |-> StripColours(stdout)]
NoResults ==
    [failed |-> 0, passed |-> 0, broken |-> 0, skipped |-> 0, warnings |-> 0,
     retcode |-> 0, stdout |-> << >>]

\* read_result(test, stdout, retcode, exec_t) is called and returns
ReadResult(stdout, retcode) ==
    /\ rr_pc = "idle"
    /\ rr_pc' = "done"
    /\ rr_stdout' = stdout
    /\ rr_result' = TestResults(stdout, retcode)
    /\ UNCHANGED resultFrame

Init ==
    /\ parallelizable \in [Tests -> BOOLEAN]
    /\ force_parallel \in BOOLEAN
    \* force_parallel is set for a suite of non-parallelizable tests; a suite
    \* without it has at least one of them (a suite of parallelizable tests
    \* only is scheduled as the forced one is)
    /\ force_parallel => \A t \in Tests : ~parallelizable[t]
    /\ ~force_parallel => \E t \in Tests : ~parallelizable[t]
    /\ suite_pc = "idle"
    /\ tests_left = << >>
    /\ tests_results = << >>
    /\ s_results = << >>
    /\ s_stop = FALSE
    /\ s_stopped = FALSE
    /\ suite_exc = "none"
    /\ start_t = 0
    /\ spc = "idle"
    /\ ts_results = << >>
    /\ ts_tasks = << >>
    /\ ts_stop = FALSE
    /\ ts_stopped = FALSE
    /\ seq_rest = << >>
    /\ cur = 0
    /\ gexc = "none"
    /\ err = "none"
    /\ sched_cancel = FALSE
    /\ sched_out = "none"
    /\ task = [t \in Tests |-> NoTask]
    /\ stop_pc = "none"
    /\ stop_tasks = {}
    /\ stop_calls = 0
    /\ sut_running = TRUE
    /\ rb_log = << >>
    /\ now = 0
    /\ reboots = 0
    /\ kerr_calls = 0
    /\ sched_calls = 0
    /\ tmo_seen = FALSE
    /\ h_running = FALSE
    /\ h_stop = FALSE
    /\ h_procs = << >>
    /\ h_fetch = FALSE
    /\ h_proc = [c \in Cmds |-> "none"]
    /\ h_cmd = [c \in Cmds |-> "idle"]
    /\ h_ret = [c \in Cmds |-> "none"]
    /\ h_st = [s \in HostStops |-> "idle"]
    /\ h_wait = [s \in HostStops |-> {}]
    /\ h_sout = [s \in HostStops |-> "none"]
    /\ h_comm = "none"
    /\ h_comms = 0
    /\ h_sessions = 0
    /\ h_arg = [c \in Cmds |-> "-"]
    /\ h_fpc = [f \in Fetches |-> "idle"]
    /\ h_fret = [f \in Fetches |-> "none"]
    /\ h_isfile = [f \in Fetches |-> TRUE]
    /\ h_locked = [c \in Cmds |-> FALSE]
    /\ r_pc = "read"
    /\ r_stdout = << >>
    /\ r_panic = FALSE
    /\ r_ret = "none"
    /\ r_reaped = FALSE
    /\ e_pc = "idle"
    /\ e_arg = 1
    /\ e_retries = 1
    /\ e_retry = 0
    /\ e_comm = 0
    /\ e_stops = 0
    /\ e_hist = << >>
    /\ e_out = << "none", 0 >>
    /\ x_pc = "taint1"
    /\ x_c1 = -1
    /\ x_c2 = -1
    /\ x_cmd = "none"
    /\ x_ping = "none"
    /\ x_data = NoData
    /\ x_sink = ""
    /\ x_status = STATUS_OK
    /\ x_result = NoData
    /\ x_events = << >>
    /\ x_raised = "none"
    /\ sched_pending = << >>
    /\ v_arg = << "none", << >> >>
    /\ v_out = "none"
    /\ t_pc = [k \in Callers |-> "idle"]
    /\ t_obj = [k \in Callers |-> 0]
    /\ t_out = [k \in Callers |-> "none"]
    /\ t_val = [k \in Callers |-> NoStatus]
    /\ t_rc = [k \in Callers |-> 0]
    /\ t_stdout = [k \in Callers |-> << >>]
    /\ t_locked = FALSE
    /\ t_waiters = << >>
    /\ t_status = << >>
    /\ t_last = NoStatus
    /\ g_pc = "idle"
    /\ g_how = [i \in Probes |-> "none"]
    /\ g_std = [i \in Probes |-> << >>]
    /\ g_info = NoInfo
    /\ rr_pc = "idle"
    /\ rr_stdout = << >>
    /\ rr_result = NoResults

Next ==
    \/ \E t \in Tests : RunTest(t)
    \/ Schedule
    \/ RunSuite
    \/ Tick
    \/ SuiteTimeoutExpires

\* a run of SuiteScheduler.schedule([suite]) that nobody stops
Spec == Init /\ [][Next]_vars

NextStop == Next \/ Stop

\* the same run with one call of SuiteScheduler.stop() at any moment
StopSpec == Init /\ [][NextStop]_vars

NextDirect ==
    \/ \E t \in Tests : RunTest(t)
    \/ Schedule
    \/ DirectSchedule
    \/ DirectStop
    \/ StopTasksDone
    \/ DirectStopReturns

\* one call of TestScheduler.schedule made by a caller of its own, with calls
\* of TestScheduler.stop() at any moment
DirectSpec == Init /\ [][NextDirect]_vars

\* a suite with tests of both groups
MixedInit == Init /\ parallelizable = [t \in Tests |-> t < NumTests]

NextCalls ==
    \/ \E t \in Tests : RunTest(t)
    \/ Schedule
    \/ CallSchedule
    \/ CallAcquires

\* TestScheduler.schedule called by callers of its own, one call possibly
\* made while another runs
CallsSpec == MixedInit /\ [][NextCalls]_vars

NextReject == Next \/ TestScheduleRejected \/ SuiteScheduleRejected

\* a run of SuiteScheduler.schedule([suite]) with schedule calls that give a
\* wrong list, made at any moment
RejectSpec == MixedInit /\ [][NextReject]_vars

\* the HostSUT after construction; the engine is not used
HostInit == Init /\ force_parallel

NextHost ==
    \/ Communicate
    \/ \E s \in HostStops : HostStop(s)
    \/ \E c \in Cmds : RunCommand(c)
    \/ \E c \in Cmds : ProcessExits(c)
    \/ FetchCalled(1)
    \/ FetchEnds(1)

\* a HostSUT object used by concurrent callers: communicate, stop and
\* run_command calls and one fetch_file call, in any interleaving
HostSpec == HostInit /\ [][NextHost]_vars

NextFetch ==
    \/ Communicate
    \/ HostStop(1)
    \/ \E c \in Cmds : RunCommand(c)
    \/ \E c \in Cmds : ProcessExits(c)
    \/ \E f \in Fetches : FetchFile(f)

\* a HostSUT object whose callers fetch files concurrently: communicate,
\* run_command and fetch_file calls and one stop call, in any interleaving
FetchSpec == HostInit /\ [][NextFetch]_vars

\* one run_command call reading the output of its process
NextRead == ReadChunk \/ ReadEnds

ReadSpec == HostInit /\ [][NextRead]_vars

\* one _run_test call past its stop check
NextTest ==
    \/ TaintRead1
    \/ TestReturns
    \/ TestPanics
    \/ TestTimesOut
    \/ TestFails
    \/ TaintRead2
    \/ TestPing
    \/ TestSave
    \/ TestEnds

TestSpec == HostInit /\ [][NextTest]_vars

\* one ensure_communicate call
NextEnsure ==
    \/ EnsureCalled
    \/ CommunicateReturns
    \/ CommunicateFails
    \/ CommunicateBreaks
    \/ StopReturned
    \/ StopRaises

EnsureSpec == HostInit /\ [][NextEnsure]_vars

NextDecode ==
    \/ TaintCalled(1, 1)
    \/ \E stdout \in TaintOutputs : TaintReadEnds(1, 0, stdout)

\* one get_tainted_info call whose read returns any of TaintOutputs
DecodeSpec == HostInit /\ [][NextDecode]_vars

NextTaint ==
    \/ \E k \in Callers, o \in SUTs : TaintCalled(k, o)
    \/ \E k \in Callers : TaintAcquires(k)
    \/ \E k \in Callers, r \in TaintReads : TaintReadEnds(k, r[1], r[2])

\* get_tainted_info calls made by concurrent callers on the SUT objects of
\* one process, in any interleaving
TaintSpec == HostInit /\ [][NextTaint]_vars

NextInfo ==
    \/ InfoCalled
    \/ \E i \in Probes, rc \in {0, 1} :
          \E stdout \in ProbeOutputs(i) : ProbeReturns(i, rc, stdout)
    \/ \E i \in Probes : ProbeTimesOut(i)
    \/ InfoReturns

\* one get_info call whose six commands answer in any order, each with
\* return code 0, with another return code, or not within 1.5 s
InfoSpec == HostInit /\ [][NextInfo]_vars

NextResult ==
    \E stdout \in Stdouts, retcode \in ResultCodes : ReadResult(stdout, retcode)

\* one read_result call with any of Stdouts and ResultCodes
ResultSpec == HostInit /\ [][NextResult]_vars

\* ------------------------------------------------------------ properties
\* names of the tests with a result in res, and number of results of t in res
Names(res) == {res[i].test : i \in 1..Len(res)}
Count(res, t) == Cardinality({i \in 1..Len(res) : res[i].test = t})
IsPrefix(a, b) == Len(a) <= Len(b) /\ SubSeq(b, 1, Len(a)) = a
Live(t) == task[t].st \in {"wait", "run", "fire"}

\* C1: when SuiteScheduler.schedule([S]) has completed without a stop, the
\* SuiteResults appended for S holds exactly one result per test of S: every
\* test name occurs, none occurs twice, whatever completions, test timeouts,
\* kernel failures with reboots or suite timeout occurred.
C1_OneResultPerTest ==
    suite_pc = "done" =>
        /\ Len(s_results) = 1
        /\ Names(s_results[1]) = Tests
        /\ \A t \in Tests : Count(s_results[1], t) = 1

\* a completed suite that went through a reboot and then a suite timeout
C1_Witness ==
    /\ suite_pc = "done"
    /\ reboots >= 1
    /\ tmo_seen
    /\ \E i \in 1..Len(s_results[1]) : s_results[1][i].retcode = 32

\* C2 (as amended): an attempt that began executing has at most one result;
\* it has exactly one once the command, the taint reads and the ping ended in
\* one of the classifications (the result is appended before the event and the
\* raise or return); an attempt ended by SUTError of a taint read, or skipped
\* at the stop check, has none.
C2_ClassifiedAttemptRecorded ==
    \A t \in Tests :
        /\ Count(ts_results, t) <= 1
        /\ task[t].st = "fire" => Count(ts_results, t) = 1
        /\ (Done(t) /\ task[t].out \in {"ok"} \cup KernelErrors)
              => Count(ts_results, t) = 1
        /\ (Done(t) /\ task[t].out \in {"SUTError", "skip"})
              => Count(ts_results, t) = 0

\* one attempt completed, one ended with a kernel error and one with SUTError
C2_Witness ==
    \E t, u, v \in Tests :
        /\ Done(t) /\ task[t].out = "ok"
        /\ Done(u) /\ task[u].out \in KernelErrors
        /\ Done(v) /\ task[v].out = "SUTError"
        /\ Names(ts_results) = {t, u}

\* C2 as stated: every attempt that passed the stop check and was not
\* cancelled has exactly one result when its task has ended.
C2_EveryAttemptRecorded ==
    \A t \in Tests :
        (Done(t) /\ task[t].out \notin {"skip", "CancelledError"})
            => Count(ts_results, t) = 1

\* C3: results are not lost by a kernel failure or a reboot: the results of a
\* schedule call only grow until the next call clears them, they are all in
\* the accumulated list by then, the accumulated list only grows during the
\* suite run, and it is what the final SuiteResults holds.
C3_ResultsSurvive ==
    [][ /\ spc # "called" => IsPrefix(ts_results, ts_results')
        /\ suite_pc # "start" => IsPrefix(tests_results, tests_results')
        /\ spc' = "called" =>
              \A i \in 1..Len(ts_results') :
                  ts_results'[i] \in Range(tests_results')
        /\ suite_pc' \in {"done", "failed"} =>
              s_results'[Len(s_results')] = tests_results'
      ]_vars

\* a second schedule call ended with a kernel error after a sibling's result
C3_Witness ==
    /\ Returned
    /\ sched_out \in KernelErrors
    /\ Len(ts_results) >= 2
    /\ tests_results # << >>

\* C4: when a kernel-class error has left the task of a test, results already
\* holds an entry of that test.
C4_ErrorAfterResult ==
    \A t \in Tests :
        task[t].out \in KernelErrors =>
            \E i \in 1..Len(ts_results) : ts_results[i].test = t

\* the task of a test raised KernelTimeoutError after two restarts of the SUT
C4_Witness ==
    \E t \in Tests :
        /\ task[t].out = "KernelTimeoutError"
        /\ reboots = 2

\* C5: for the whole of a schedule call the tests handed to it are the tests
\* of the suite without a result in the accumulated results, in suite order,
\* and the call creates tasks for these tests only: a test with a recorded
\* result is not run again.
C5_OutstandingSet ==
    spc # "idle" =>
        /\ Range(tests_left) = Tests \ Names(tests_results)
        /\ \A i, j \in 1..Len(tests_left) : i < j => tests_left[i] < tests_left[j]
        /\ \A t \in Tests : task[t].st # "none" => t \in Range(tests_left)

\* after a reboot, with results appended in another order than the suite's
C5_Witness ==
    /\ spc = "called"
    /\ reboots >= 1
    /\ Len(tests_results) >= 2
    /\ tests_results[1].test > tests_results[2].test
    /\ tests_left # << >>

\* C6: the SUT is restarted once per schedule call that ended with a
\* kernel-class error and never otherwise; a restart calls the test
\* scheduler's stop, the SUT's stop, then ensure_communicate, and a schedule
\* call runs only with the SUT running again.
C6_RebootPerKernelError ==
    /\ reboots + (IF Returned /\ sched_out \in KernelErrors THEN 1 ELSE 0)
          = kerr_calls
    /\ suite_pc = "rb_fire" => rb_log = << >>
    /\ suite_pc = "rb_comm" =>
          rb_log = << "scheduler.stop", "sut.stop" >> /\ ~sut_running
    /\ spc # "idle" =>
          /\ sut_running
          /\ reboots > 0 =>
                rb_log = << "scheduler.stop", "sut.stop", "sut.ensure_communicate" >>

\* the third schedule call of a suite starts after two restarts
C6_Witness ==
    /\ spc = "called"
    /\ reboots = 2
    /\ kerr_calls = 2

\* what the handler of the suite timeout leaves: the results recorded so far,
\* then one result with returncode 32 and skipped 1 for every other test
C7_Skipped ==
    LET kept == tests_results \o ts_results
    IN /\ IsPrefix(kept, tests_results')
       /\ Names(tests_results') = Tests
       /\ Len(tests_results') = Len(kept) + Cardinality(Tests \ Names(kept))
       /\ \A i \in (Len(kept) + 1)..Len(tests_results') :
             tests_results'[i] =
                 [test |-> tests_results'[i].test, retcode |-> 32, passed |-> 0,
                  failed |-> 0, broken |-> 0, skipped |-> 1, warnings |-> 0]
       /\ suite_pc' = "final"

\* once the suite timeout was raised, no test of the suite starts executing
C7_NoFurtherTest ==
    tmo_seen => \A t \in Tests : ~(task[t].st = "wait" /\ task'[t].st = "run")

\* the first part of C7 alone
C7_SkippedAtTimeout ==
    [][(suite_pc = "tmo_fire" /\ suite_pc' # "tmo_fire") => C7_Skipped]_vars

\* C7: at the suite timeout every test without a result gets the result with
\* returncode 32 and skipped 1, the earlier results are kept, the loop ends
\* and no further test of the suite is executed.
C7_SuiteTimeout ==
    [][ /\ (suite_pc = "tmo_fire" /\ suite_pc' # "tmo_fire") => C7_Skipped
        /\ C7_NoFurtherTest ]_vars

\* C8: the time spent running the tests of a suite, summed over the
\* iterations of the reboot loop, never exceeds suite_timeout.
C8_SuiteBudget == now <= SuiteTimeout

\* C9: at most max_workers tests of the parallel group, and at most one of the
\* sequential group, are inside the per-test routine.
C9_WorkersBound ==
    /\ Cardinality({t \in Tests : IsPar(t) /\ Inside(t)}) <= MaxWorkers
    /\ Cardinality({t \in Tests : ~IsPar(t) /\ Inside(t)}) <= 1

\* max_workers tests are inside and one more waits for the semaphore
C9_Witness ==
    /\ Cardinality({t \in Tests : IsPar(t) /\ Inside(t)}) = MaxWorkers
    /\ \E t \in Tests : IsPar(t) /\ task[t].st = "wait"

\* C10: without force_parallel, while the task of a non-parallelizable test
\* exists and has not ended, no other test has a task that has not ended.
C10_SequentialAlone ==
    ~force_parallel =>
        \A t \in Tests :
            (~parallelizable[t] /\ Live(t)) =>
                \A u \in Tests \ {t} : ~Live(u)

\* a sequential test runs after a parallel test and a sequential one ended
C10_Witness ==
    /\ ~force_parallel
    /\ \E t, u, v \in Tests :
          /\ ~parallelizable[t] /\ Inside(t)
          /\ parallelizable[u] /\ Done(u)
          /\ ~parallelizable[v] /\ Done(v)

\* C11: within the sequential group of a schedule call the tests are started
\* in input order (a test has a task only when every sequential test before it
\* in the input has ended and none after it was created) and the results of
\* sequential tests are appended in input order.
C11_SequentialOrder ==
    /\ \A i, j \in 1..Len(ts_results) :
          (i < j /\ ~IsPar(ts_results[i].test) /\ ~IsPar(ts_results[j].test))
              => ts_results[i].test < ts_results[j].test
    /\ spc = "seq" =>
          \A t, u \in Range(tests_left) :
              (~IsPar(t) /\ ~IsPar(u) /\ u < t /\ task[t].st # "none")
                  => Done(u)

\* the results of two sequential tests are recorded and a third one runs
C11_Witness ==
    /\ spc = "seq"
    /\ Len(ts_results) >= 2
    /\ \A i \in 1..Len(ts_results) : ~IsPar(ts_results[i].test)
    /\ \E t \in Tests : ~IsPar(t) /\ Inside(t)

\* C12: a schedule call that caught a kernel-class error has cancelled every
\* task of the call that is not done; the error reaches the caller only when
\* every task of the call is done, it is the error that was caught and the one
\* a task of the call raised, the task list is empty then and no task is left
\* executing; no task of the sequential group exists when a task of the
\* parallel group has failed.
C12_FailurePropagation ==
    [][ /\ spc = "handler" =>
              \A t \in Range(ts_tasks) : Done(t) \/ task[t].creq
        /\ (spc # "idle" /\ spc' = "idle" /\ sched_out' \in KernelErrors) =>
              /\ spc = "handler"
              /\ sched_out' = err
              /\ \E t \in Range(ts_tasks) : task[t].out = err
              /\ \A t \in Range(ts_tasks) : Done(t)
              /\ ts_tasks' = << >>
              /\ \A t \in Tests : ~Live(t)'
        /\ \A t, u \in Tests :
              (IsPar(t) /\ task[t].out \in KernelErrors /\ ~IsPar(u))
                  => task[u].st = "none"
      ]_vars

\* a kernel error of a parallel test reached the caller after a sibling was
\* cancelled, with the sequential group not started
C12_Witness ==
    /\ Returned
    /\ sched_out \in KernelErrors
    /\ Len(ts_results) = 1
    /\ IsPar(ts_results[1].test)
    /\ \E t, u \in Range(tests_left) : t # u /\ IsPar(t) /\ ~IsPar(u)
    /\ \E t \in Range(tests_left) : IsPar(t) /\ t # ts_results[1].test

\* a call of stop is made in this step
StopIsCalled == stop_calls' = stop_calls + 1
\* a call of stop that found tasks returns in this step
StopReturns == stop_pc \in {"gather", "lock"} /\ stop_pc' = "returned"

\* C13: TestScheduler.stop called while tasks exist sets the stop flag and
\* requests the cancellation of every task that is not done; the flag stays
\* set until the call returns, and the call returns only when every task has
\* finished and the schedule call has released its lock, leaving the flag
\* False and stopped True.  Called with no task it returns at once and leaves
\* stopped, the flag, the results and the tasks as they were; as no task
\* exists when a call returns, a second call in a row is that no-op.
C13_StopContract ==
    [][ /\ (StopIsCalled /\ ts_tasks = << >>) =>
              /\ stop_pc' = "returned"
              /\ UNCHANGED << ts_stop, ts_stopped, ts_results, ts_tasks,
                              task >>
        /\ (StopIsCalled /\ ts_tasks # << >>) =>
              /\ ts_stop' /\ stop_pc' # "returned"
              /\ \A t \in Range(ts_tasks) : Done(t)' \/ task'[t].creq
        /\ stop_pc \in {"gather", "lock"} => ts_stop
        /\ StopReturns =>
              /\ \A t \in Tests : ~Live(t)
              /\ spc = "idle" /\ spc' = "idle"
              /\ ts_tasks' = << >>
              /\ ~ts_stop' /\ ts_stopped'
      ]_vars

\* a stop that interrupted the batch has returned and was followed by a
\* second call, which changed nothing
C13_Witness ==
    /\ stop_pc = "returned" /\ stop_calls = MaxStops
    /\ ts_stopped /\ ~ts_stop
    /\ sched_out = "ok"
    /\ Len(ts_results) = 1
    /\ ts_tasks = << >>
\* C14: a TestScheduler.schedule call that ends while a stop is in progress
\* (the stop flag is set from the cancellation of the tasks until the lock is
\* released) returns normally: neither the CancelledError of its tasks nor
\* the kernel error the except block holds is raised to the caller.
C14_StopIsNotAFailure ==
    [][ (spc # "idle" /\ spc' = "idle" /\ ts_stop) => sched_out' = "ok" ]_vars

\* the batch was stopped before any test gave a result: every task ended
\* cancelled or skipped, and the call returned normally
C14_Witness ==
    /\ stop_pc = "returned" /\ ts_stopped
    /\ sched_calls = 1 /\ spc = "idle"
    /\ sched_out = "ok"
    /\ ts_results = << >>
\* the run of the suite ends in this step: its SuiteResults is appended
SuiteEnds == suite_pc = "final" /\ suite_pc' # "final"
\* SuiteScheduler.stop found tasks in the inner scheduler and cancelled them
InnerStopped ==
    \/ stop_pc \in {"gather", "lock"}
    \/ stop_pc = "suite_lock" /\ ts_stopped
\* tests holds a skipped entry made up by _run_suite
HasSynthetic(tests) == \E i \in 1..Len(tests) : tests[i].retcode = 32

\* C15 as stated: once SuiteScheduler.stop has been requested the run of the
\* suite raises no exception and adds no synthetic skipped entry.
C15_StoppedRunIsClean ==
    [][ s_stop =>
            /\ suite_exc' = suite_exc
            /\ HasSynthetic(tests_results') => HasSynthetic(tests_results)
      ]_vars

\* C15 (amended): a suite that ends while SuiteScheduler.stop is in progress
\* appends one SuiteResults holding the results collected, those of the last
\* batch included, and the only exception it can end with is SUTError (of a
\* reboot that failed, or of a taint read of a batch the stop did not reach).
\* When the stop found tests in flight the suite ends without exception.
\* Unless the suite timeout expired during the run, the SuiteResults holds
\* no synthetic skipped entry and every result of the last batch.
\* When stop returns, stopped is True, both stop flags are False, and the
\* schedule calls of both schedulers have finished.
C15_StoppedRun ==
    [][ /\ (s_stop /\ SuiteEnds) =>
              /\ s_results' = << tests_results >>
              /\ suite_exc \in {"none", "SUTError"}
              /\ ~tmo_seen =>
                    /\ ~HasSynthetic(tests_results)
                    /\ \A i \in 1..Len(ts_results) :
                          \E j \in 1..Len(tests_results) :
                              tests_results[j] = ts_results[i]
              /\ InnerStopped => suite_exc = "none"
        /\ (stop_pc = "suite_lock" /\ stop_pc' = "returned") =>
              /\ s_stopped' /\ ~s_stop' /\ ~ts_stop'
              /\ suite_pc \in {"done", "failed"} /\ spc = "idle"
              /\ Len(s_results) = 1
      ]_vars

\* stop has returned from a run it interrupted with tests in flight: the
\* suite is done and its SuiteResults holds the one result recorded
C15_Witness ==
    /\ stop_pc = "returned" /\ s_stopped /\ ts_stopped
    /\ suite_pc = "done" /\ ~tmo_seen /\ reboots = 0
    /\ Len(s_results) = 1 /\ Len(s_results[1]) = 1
\* the task of t passes "if self._stop" and begins its test in this step
Begins(t) == task[t].st = "wait" /\ task'[t].st = "run"

\* C16: while a stop flag is set (TestScheduler.stop or SuiteScheduler.stop
\* is in progress) no test begins executing.
C16_NoTestAfterStop ==
    [][ (s_stop \/ ts_stop) => \A t \in Tests : ~Begins(t) ]_vars
\* ensure_communicate raised SUTError during a reboot: the SUT was stopped
\* and did not come back
RebootFailed == suite_exc = "SUTError" /\ ~sut_running

\* C17: when ensure_communicate raises SUTError during a reboot, that error
\* stays the outcome of SuiteScheduler.schedule, no batch is scheduled and no
\* test begins afterwards, and the SuiteResults appended for the suite holds
\* the results collected before the failure, those of the batch that ended
\* with the kernel error included.
C17_RebootFailure ==
    [][ RebootFailed =>
          /\ suite_pc \in {"final", "failed"}
          /\ spc = "idle" /\ \A t \in Tests : ~Live(t)
          /\ Len(tests_results) >= 1
          /\ \A i \in 1..Len(ts_results) :
                \E j \in 1..Len(tests_results) :
                    tests_results[j] = ts_results[i]
          /\ suite_pc = "failed" => s_results = << tests_results >>
          /\ suite_exc' = suite_exc /\ suite_pc' # "done"
          /\ sched_calls' = sched_calls /\ spc' = "idle"
          /\ tests_results' = tests_results
          /\ \A t \in Tests : ~Live(t)'
      ]_vars

\* the second reboot of the run failed: schedule ended with SUTError and the
\* SuiteResults holds the results of both batches
C17_Witness ==
    /\ RebootFailed /\ suite_pc = "failed"
    /\ reboots = 2
    /\ Len(s_results) = 1 /\ Len(s_results[1]) >= 2
\* a call of HostSUT.communicate is made in this step
CommunicateCalled == h_comms' = h_comms + 1

\* C18: HostSUT.communicate succeeds exactly when the session is not running
\* and makes it running; called on a running session it raises SUTError and
\* the session stays running.  At most one session is live: the sessions
\* opened and not stopped are one when the SUT is running, none otherwise.
C18_SingleSession ==
    [][ /\ CommunicateCalled =>
              /\ h_comm' = (IF h_running THEN "SUTError" ELSE "ok")
              /\ h_running'
              /\ UNCHANGED << h_stop, h_procs, h_proc >>
        /\ h_sessions = (IF h_running THEN 1 ELSE 0)
        /\ h_sessions' <= 1
      ]_vars

\* a stop call has ended, and the second of two communicate calls found the
\* session running and raised SUTError
C18_Witness ==
    /\ h_comms = MaxComms
    /\ h_comm = "SUTError"
    /\ h_running /\ h_sessions = 1
    /\ \E s \in HostStops : h_st[s] = "done"
\* the call s of HostSUT.stop ends in this step, returning or raising
HostStopEnds(s) == h_st[s] # "done" /\ h_st'[s] = "done"

\* C19: when a call of HostSUT.stop ends, by return or by the exception of a
\* failed teardown, the session is not running and the stop flag is False.
\* A call on a session that is not running returns and changes nothing, so
\* a stop that follows a stop leaves the state of the first.
C19_StopLeavesNotRunning ==
    [][ \A s \in HostStops :
          HostStopEnds(s) =>
            /\ ~h_running' /\ ~h_stop'
            /\ (h_st[s] = "idle" /\ ~h_running) =>
                  /\ h_sout'[s] = "ok"
                  /\ UNCHANGED << h_running, h_stop, h_procs, h_proc,
                                  h_fetch, h_sessions >>
      ]_vars

\* a stop raised in its teardown (a fetch was going on) and a second stop was
\* made after it: the session is not running and the flag is False
C19_Witness ==
    /\ h_sout[1] = "AttributeError"
    /\ h_st[2] = "done" /\ h_sout[2] = "ok"
    /\ ~h_running /\ ~h_stop
    /\ h_comms = 1
\* C20: when a call of HostSUT.stop made on a running session returns, no
\* process spawned by run_command is alive.
C20_NoProcessSurvivesStop ==
    [][ \A s \in HostStops :
          (HostStopEnds(s) /\ h_st[s] = "wait" /\ h_sout'[s] = "ok") =>
              \A c \in Cmds : h_proc'[c] # "alive"
      ]_vars

\* a run_command or ping call is made
CommandCalled(c) == h_cmd[c] = "idle" /\ h_cmd'[c] # "idle"

\* C21: run_command with an empty command raises ValueError, run_command
\* and ping on a session that is not running raise SUTError, and a call
\* that raises this way spawns no process and leaves the list of owned
\* processes and the running state as they were.
C21_RejectedCommand ==
    [][\A c \in Cmds :
          CommandCalled(c) =>
             /\ h_arg'[c] = "" =>
                   h_cmd'[c] = "done" /\ h_ret'[c] = "ValueError"
             /\ (h_arg'[c] # "" /\ ~h_running) =>
                   h_cmd'[c] = "done" /\ h_ret'[c] = "SUTError"
             /\ h_cmd'[c] = "done" =>
                   /\ h_procs' = h_procs
                   /\ h_proc' = h_proc
                   /\ h_running' = h_running]_vars

\* an empty command was rejected, and so was a ping of a session that is
\* not running
C21_Witness ==
    \E c, d \in Cmds :
       /\ h_arg[c] = "" /\ h_ret[c] = "ValueError"
       /\ h_arg[d] = PingCommand /\ h_ret[d] = "SUTError"
       /\ h_proc[c] = "none" /\ h_proc[d] = "none"

\* C22: whatever the chunks were, run_command raises KernelPanicError, with
\* the process removed, killed and awaited, when the marker occurs anywhere
\* in the output it accumulated, and returns the result record when the
\* marker does not occur.
C22_PanicAlwaysDetected ==
    r_pc = "done" =>
       /\ r_reaped
       /\ r_ret = IF Contains(r_stdout, KernelPanic)
                  THEN "KernelPanicError" ELSE "ret"

\* a fetch_file call is made
FetchIsCalled(f) == h_fpc[f] = "idle" /\ h_fpc'[f] # "idle"

\* C23: at most one fetch_file call reads inside the lock, and the lock is
\* held exactly while one does; a run_command call on a running session
\* starts whatever the lock, and no step of it touches the lock; fetch_file called with a path that does not exist or
\* on a session that is not running raises SUTError and leaves the lock as
\* it was.
C23_FetchExclusive ==
    [][/\ Cardinality(Reading) <= 1
       /\ h_fetch <=> Reading # {}
       /\ \A c \in Cmds :
             /\ (CommandCalled(c) /\ h_running /\ h_arg'[c] # "") =>
                   h_cmd'[c] = "spawn"
             /\ h_cmd'[c] # h_cmd[c] => h_fetch' = h_fetch
       /\ \A f \in Fetches :
             (FetchIsCalled(f) /\ (~h_isfile'[f] \/ ~h_running)) =>
                /\ h_fpc'[f] = "done" /\ h_fret'[f] = "SUTError"
                /\ h_fetch' = h_fetch]_vars

\* a run_command call was made and returned while one fetch_file call held
\* the lock and the other waited for it
C23_Witness ==
    /\ h_fetch
    /\ \E f, g \in Fetches : h_fpc[f] = "read" /\ h_fpc[g] = "wait"
    /\ \E c \in Cmds : h_cmd[c] = "done" /\ h_ret[c] = "ok" /\ h_locked[c]

\* the first k communicate calls raised a KirkException
FirstFail(k) ==
    /\ k <= Len(e_hist)
    /\ \A i \in 1..k : e_hist[i] \in KirkExceptions

\* C24: with retries = n, coerced to at least 1: when communicate fails k
\* times and then succeeds, k < n, ensure_communicate has called communicate
\* k + 1 times and stop k times and raises nothing; when the first n
\* attempts all fail it has called communicate n times and stop n - 1 times
\* and raises the error of the last attempt.
C24_EnsureCommunicate ==
    e_pc = "done" =>
       /\ e_retries = Max(e_arg, 1)
       /\ \A k \in 0..(e_retries - 1) :
             (FirstFail(k) /\ Len(e_hist) = k + 1 /\ e_hist[k + 1] = "ok") =>
                e_comm = k + 1 /\ e_stops = k /\ e_out[1] = "ok"
       /\ FirstFail(e_retries) =>
             /\ e_comm = e_retries
             /\ e_stops = e_retries - 1
             /\ e_out = << e_hist[e_retries], e_retries >>

\* three attempts were allowed and all three failed, the last one with an
\* exception of its own
C24_Witness ==
    /\ e_pc = "done"
    /\ e_retries = 3
    /\ FirstFail(3)
    /\ e_hist[3] # e_hist[2]
    /\ e_stops = 2

\* the schedule call inside the lock returns or raises in this step
CallReturns == spc # "idle" /\ spc' = "idle"

Rejected == v_arg' # v_arg \/ v_out' # v_out

\* C26: TestScheduler.schedule raises ValueError for an empty list and for a
\* list with an element that is no Test, SuiteScheduler.schedule for an empty
\* list and for a list with an element that is no Suite, and a call that is
\* rejected changes nothing: no result list is cleared, no task is created,
\* no job runs, no lock is taken.
C26_RejectedJobs ==
    [][/\ \A jobs \in JobLists, class \in JobClasses :
             JobsError(jobs, class) = "ValueError" <=>
                (jobs = << >> \/ \E i \in 1..Len(jobs) : jobs[i] # class)
       /\ Rejected =>
             /\ v_out' = "ValueError"
             /\ JobsError(v_arg'[2], v_arg'[1]) = "ValueError"
             /\ UNCHANGED << ts_results, s_results, tests_results, task,
                             ts_tasks, spc, suite_pc, tests_left, sched_out,
                             sched_pending, sched_calls >>]_vars

\* while a batch runs with a result recorded, TestScheduler.schedule was
\* given a list holding a Suite and raised ValueError
C26_Witness ==
    /\ v_arg = << "Test", << "Test", "Suite" >> >>
    /\ v_out = "ValueError"
    /\ spc \in {"par", "seq"}
    /\ ts_results # << >>
    /\ \E t \in Tests : Live(t)

\* C27: KernelPanicError from run_command gives KERNEL_PANIC; a test timeout
\* gives TEST_TIMEOUT, and KERNEL_TIMEOUT exactly when the ping that follows
\* it times out; for these three classes the result is built from the
\* synthetic data, return code -1 and the output the sink captured;
\* KERNEL_PANIC ends with KernelPanicError and KERNEL_TIMEOUT with
\* KernelTimeoutError.
C27_FailureClasses ==
    x_pc \in {"end", "done"} /\ x_result # NoData =>
       /\ x_cmd = "KernelPanicError" <=> x_status = KERNEL_PANIC
       /\ x_cmd = "TimeoutError" <=> x_status \in {TEST_TIMEOUT, KERNEL_TIMEOUT}
       /\ x_cmd = "TimeoutError" =>
             (x_status = KERNEL_TIMEOUT <=> x_ping = "TimeoutError")
       /\ x_status \in {KERNEL_PANIC, TEST_TIMEOUT, KERNEL_TIMEOUT} =>
             x_result = [stdout |-> x_sink, returncode |-> -1]
       /\ x_pc = "done" =>
             /\ x_status = KERNEL_PANIC => x_raised = "KernelPanicError"
             /\ x_status = KERNEL_TIMEOUT => x_raised = "KernelTimeoutError"
             /\ x_status = TEST_TIMEOUT => x_raised = "ok"

\* a test timed out with output in the sink, the ping timed out too, and
\* _run_test raised KernelTimeoutError
C27_Witness ==
    /\ x_pc = "done"
    /\ x_cmd = "TimeoutError" /\ x_ping = "TimeoutError"
    /\ x_sink = "out"
    /\ x_result = [stdout |-> "out", returncode |-> -1]
    /\ x_raised = "KernelTimeoutError"

\* C28: the taint bitmask is read before and after the command, and the
\* status is KERNEL_TAINTED exactly when the two differ, whatever the return
\* code; the result then has the output and the return code of the command
\* and KernelTaintedError is raised; with equal bitmasks it is not raised.
C28_TaintedClass ==
    /\ x_c2 # -1 => x_c1 # -1 /\ x_cmd = "ret"
    /\ (x_pc \in {"save", "end"} /\ x_cmd = "ret") => x_c2 # -1
    /\ x_c2 # -1 =>
          /\ x_status = KERNEL_TAINTED <=> x_c2 # x_c1
          /\ x_pc # "save" => x_result = x_data
          /\ x_pc = "done" =>
                (x_raised = "KernelTaintedError" <=> x_c2 # x_c1)
    /\ x_raised = "KernelTaintedError" => x_cmd = "ret" /\ x_c2 # x_c1

\* the command returned 0 with output, the bitmask had changed, and the
\* result has that output and return code
C28_Witness ==
    /\ x_pc = "done"
    /\ x_c1 = 0 /\ x_c2 = 1
    /\ x_data = [stdout |-> "out", returncode |-> 0]
    /\ x_result = x_data
    /\ x_raised = "KernelTaintedError"

\* the task of t, whose test timed out and whose ping was answered, ends
TimedOutEnds(t) ==
    /\ task[t].st = "fire" /\ task[t].status = TEST_TIMEOUT
    /\ task'[t].st = "done"
    /\ ~task[t].creq

\* C29: a test that timed out while the ping was answered does not abort
\* the batch: its result is recorded with return code -1, its task ends
\* without an error after test_completed, no sibling is cancelled and the
\* schedule call goes on; a call that returns normally without having been
\* cancelled has a result for every job, of both groups.
C29_TimeoutGoesOn ==
    [][/\ \A t \in Tests :
             TimedOutEnds(t) =>
                /\ task'[t].out = "ok"
                /\ \E i \in 1..Len(ts_results) :
                      /\ ts_results[i].test = t
                      /\ ts_results[i].retcode = -1
                /\ ts_results' = ts_results
                /\ gexc' = gexc
                /\ spc' = spc /\ err' = err
                /\ \A u \in Tests \ {t} : task'[u] = task[u]
       /\ (CallReturns /\ sched_out' = "ok" /\ ~sched_cancel /\ ~ts_stop) =>
             Names(ts_results') = Range(tests_left)]_vars

\* a test of the parallel group timed out, and the call returned normally
\* with a result for every test, those of the sequential group after it
C29_Witness ==
    /\ spc = "idle" /\ sched_out = "ok" /\ sched_calls = 1
    /\ Len(ts_results) = NumTests
    /\ ts_results[1].retcode = -1 /\ IsPar(ts_results[1].test)
    /\ ~IsPar(ts_results[NumTests].test)
    /\ ts_results[NumTests].retcode = 0

\* the SUT was restarted and the loop of _run_suite goes on
Rebooted ==
    suite_pc = "rb_comm" /\ suite_pc' # "rb_comm" /\ suite_exc' = suite_exc

\* C30: the reboot loop ends: a schedule call that ends with a kernel-class
\* error has recorded a result for at least one of the tests handed to it,
\* so the tests without a result are strictly fewer after every reboot, and a
\* suite of NumTests tests is restarted at most NumTests times.
C30_RebootsBounded ==
    [][/\ (CallReturns /\ sched_out' \in KernelErrors) =>
             \E t \in Range(tests_left) : Count(ts_results', t) = 1
       /\ Rebooted =>
             /\ Range(tests_left') \subseteq Range(tests_left)
             /\ Range(tests_left') # Range(tests_left)
             /\ Len(tests_left') < Len(tests_left)
             /\ reboots + Len(tests_left') <= NumTests
       /\ reboots' <= NumTests]_vars

\* every test of the suite ended with a kernel-class error of its own: the
\* SUT was restarted once per test and the suite completed
C30_Witness ==
    /\ reboots = NumTests
    /\ suite_pc = "done"
    /\ Names(tests_results) = Tests
    /\ Len(tests_results) = NumTests

\* the stop call 1, made on a running session, ends in this step without
\* having been cancelled
StopEnds ==
    /\ h_running
    /\ h_st[1] # "done" /\ h_st'[1] = "done"
    /\ h_sout'[1] # "CancelledError"

\* C38: a HostSUT.stop call made while a fetch_file call is inside the fetch
\* lock waits for the lock to be released: it never ends while the lock is
\* held, and it ends normally (without raising) with the session not
\* running.
C38_StopWaitsForFetch ==
    [][StopEnds => /\ ~h_fetch
                   /\ h_sout'[1] = "ok"
                   /\ ~h_running']_vars

\* the indices of the table whose bit is set in n
SetBits(n) == {i \in 0..(Len(TAINTED_MSG) - 1) : (n \div 2^i) % 2 = 1}

\* messages holds the entries of TAINTED_MSG whose bit is set in n, each
\* once, by increasing index
ReasonsOf(n, messages) ==
    /\ Len(messages) = Cardinality(SetBits(n))
    /\ \A i \in SetBits(n) :
          messages[Cardinality({j \in SetBits(n) : j < i}) + 1]
              = TAINTED_MSG[i + 1]

\* C32: a get_tainted_info call that read a number returns that number as
\* integer, and as reasons exactly the entries TAINTED_MSG[i] for the
\* indices i, 0 <= i < 18, whose bit i is set in it, in increasing index
\* order: indices 0 and 2 for 5, no reason for 0, and none for the bits
\* beyond the table.
C32_TaintDecoding ==
    \A k \in Callers :
       t_out[k] = "read" =>
          /\ t_stdout[k] = Decimal(t_val[k].code) \o << "\n" >>
          /\ ReasonsOf(t_val[k].code, t_val[k].messages)
          /\ t_val[k].code = 5 =>
                t_val[k].messages = << TAINTED_MSG[1], TAINTED_MSG[3] >>
          /\ t_val[k].code = 0 => t_val[k].messages = << >>

\* the bitmask 5 was read and decoded to the entries 0 and 2 of the table
C32_Witness ==
    /\ t_out[1] = "read"
    /\ t_val[1].code = 5
    /\ t_val[1].messages = << "proprietary module was loaded",
                              "kernel running on an out of specification system" >>

\* the get_tainted_info call k is made in this step
Arrives(k) == t_pc[k] = "idle" /\ t_pc'[k] # "idle"
\* a call is awaiting its read
InFlight == \E j \in Callers : t_pc[j] = "read"
\* a tuple was put in the queue before
Published == t_last # NoStatus

\* C33: every get_tainted_info call made while the read of another call is in
\* flight and a tuple was published earlier returns at once the tuple
\* published last, without a read of its own, however many calls are made
\* during the same read.
C33_ConcurrentCallersGetCached ==
    [][\A k \in Callers :
          (Arrives(k) /\ InFlight /\ Published) =>
             /\ t_pc'[k] = "done"
             /\ t_out'[k] = "cached"
             /\ t_val'[k] = t_last]_vars

\* the read of the call k ends in this step with a tuple
ReadSucceeds(k) == t_pc[k] = "read" /\ t_out'[k] = "read"

\* C34: the taint cache is a single slot: the queue never holds more than
\* one tuple, and when a call that read successfully returns, the queue holds
\* exactly the tuple that call decoded and returns, whatever it held before.
C34_SingleSlot ==
    [][/\ Len(t_status') <= 1
       /\ \A k \in Callers :
             ReadSucceeds(k) =>
                /\ t_status' = << t_val'[k] >>
                /\ t_val'[k].code = int(strip(t_stdout'[k]))
                /\ t_val'[k].messages = Decode(t_val'[k].code)]_vars

\* a call read 5 while the queue held the tuple of 0 read by an earlier
\* call: the queue holds the tuple of 5 only
C34_Witness ==
    /\ t_out[1] = "read" /\ t_val[1].code = 0
    /\ t_out[2] = "read" /\ t_val[2].code = 5
    /\ t_last = t_val[2]
    /\ t_status = << t_val[2] >>

\* the read of the call k ends in this step with SUTError
ReadFails(k) == t_pc[k] = "read" /\ t_out'[k] = "SUTError"

\* C35: a read that returns a non-zero return code or an output that is no
\* number ends the call with SUTError: the cached tuple is left as it was and
\* the taint lock is released, so that the lock is held only while a read is
\* in flight and a later call can take it and read.
C35_FailedReadReleases ==
    [][/\ \A k \in Callers :
             /\ (t_pc[k] = "read" /\ t_pc'[k] = "done") =>
                   (t_out'[k] = "SUTError"
                       <=> (t_rc'[k] # 0 \/ ~isdigit(strip(t_stdout'[k]))))
             /\ ReadFails(k) =>
                   /\ t_status' = t_status
                   /\ t_val'[k] = NoStatus
                   /\ ~t_locked'
       /\ t_locked' <=> \E j \in Callers : t_pc'[j] = "read"]_vars

\* a call published a tuple, the read of a second one failed with a
\* non-zero return code, and a third one has read a fresh value, which is
\* the one the queue holds
C35_Witness ==
    /\ t_out[1] = "read" /\ t_val[1].code = 0
    /\ t_out[2] = "SUTError" /\ t_rc[2] # 0
    /\ t_out[3] = "read" /\ t_val[3].code = 5
    /\ t_status = << t_val[3] >>

\* the calls awaiting the run_command of their read
TaintReading == {k \in Callers : t_pc[k] = "read"}

\* C36: at most one taint read command is in flight at any time, in every
\* interleaving of the callers: a call starts its read only by taking the
\* free lock, and a call that arrives while the lock is held and does not
\* take the cached tuple waits for the lock.
C36_OneReadInFlight ==
    [][/\ Cardinality(TaintReading') <= 1
       /\ \A k \in Callers :
             /\ (t_pc[k] # "read" /\ t_pc'[k] = "read") =>
                   /\ ~t_locked /\ t_locked'
                   /\ TaintReading = {}
             /\ (Arrives(k) /\ t_locked /\ t_out'[k] # "cached") =>
                   /\ t_pc'[k] = "wait"
                   /\ t_waiters' = Append(t_waiters, k)]_vars

\* one read is in flight while two calls wait for the lock, and a call that
\* waited before has read
C36_Witness ==
    /\ Cardinality(TaintReading) = 1
    /\ Len(t_waiters) = 2
    /\ \E k \in Callers : t_out[k] = "read"

\* C37: with two SUT objects in one process, a get_tainted_info call made on
\* one object only returns a tuple that was read from that object, and it
\* never waits for a read that is in flight on the other object.
C37_PerObjectCache ==
    \A k \in Callers :
       /\ t_out[k] \in {"read", "cached"} => t_val[k].sut = t_obj[k]
       /\ t_pc[k] = "wait" => \A j \in TaintReading : t_obj[j] = t_obj[k]

\* the probe i failed or timed out
ProbeFailed(i) == g_how[i] \in {"failed", "timeout"}

\* C39: get_info returns a record with the seven fields distro, distro_ver,
\* kernel, arch, cpu, ram and swap for every combination of probe outcomes,
\* and each field whose probe failed or timed out has exactly the value
\* "unknown"; ram and swap are both "unknown" when the memory probe fails, and
\* each of them is when the output lacks its line.
C39_UnknownFields ==
    g_pc = "done" =>
       /\ DOMAIN g_info
             = {"distro", "distro_ver", "kernel", "arch", "cpu", "ram", "swap"}
       /\ ProbeFailed(1) => g_info.distro = << "unknown" >>
       /\ ProbeFailed(2) => g_info.distro_ver = << "unknown" >>
       /\ ProbeFailed(3) => g_info.kernel = << "unknown" >>
       /\ ProbeFailed(4) => g_info.arch = << "unknown" >>
       /\ ProbeFailed(5) => g_info.cpu = << "unknown" >>
       /\ ProbeFailed(MemProbe) =>
             /\ g_info.ram = << "unknown" >>
             /\ g_info.swap = << "unknown" >>
       /\ Matches("MemTotal:", g_std[MemProbe]) = {} =>
             g_info.ram = << "unknown" >>
       /\ Matches("SwapTotal:", g_std[MemProbe]) = {} =>
             g_info.swap = << "unknown" >>

\* the output given to read_result has no summary block and no marker
PlainOutput ==
    /\ SummaryMatches(rr_stdout) = {}
    /\ \A i \in 1..Len(rr_stdout) : rr_stdout[i][1] \notin Markers

\* the counters of a result
CountersOf(r) == << r.passed, r.failed, r.broken, r.skipped, r.warnings >>

\* C40: for an output without summary block and without TPASS, TFAIL, TSKIP,
\* TBROK or TWARN marker, read_result sets exactly one counter to 1 and the
\* others to 0, chosen by the return code: passed for 0, warnings for 4,
\* skipped for 32, broken for -1, failed for any other; and for every output
\* the return code -1 gives a broken counter that is not 0, whatever the
\* summary or the markers say.
C40_FallbackCounters ==
    rr_pc = "done" =>
       /\ PlainOutput =>
             /\ CountersOf(rr_result) =
                   CASE rr_result.retcode = 0 -> << 1, 0, 0, 0, 0 >>
                     [] rr_result.retcode = 4 -> << 0, 0, 0, 0, 1 >>
                     [] rr_result.retcode = 32 -> << 0, 0, 0, 1, 0 >>
                     [] rr_result.retcode = -1 -> << 0, 0, 1, 0, 0 >>
                     [] OTHER -> << 0, 1, 0, 0, 0 >>
             /\ CountersOf(rr_result)
                   = CountersOf(read_result(1, rr_result.retcode))
       /\ rr_result.retcode = -1 => rr_result.broken # 0

\* an output of two plain lines, one of them a colour code, was read with
\* return code -1: broken is the one counter set
C40_Witness ==
    /\ rr_pc = "done"
    /\ rr_stdout = << Line("text", 0), Line(Colour, 0) >>
    /\ rr_result.retcode = -1
    /\ rr_result.stdout = << Line("text", 0) >>
    /\ CountersOf(rr_result) = << 0, 0, 1, 0, 0 >>

\* the events fired in a step: test_started when the task of t passes
\* "if self._stop", test_completed when it returns after its result, the
\* event of a kernel-class error before its raise
FiresTestStarted(t) == task[t].st = "wait" /\ task'[t].st = "run"
FiresTestCompleted(t) ==
    task[t].st = "fire" /\ task'[t].st = "done" /\ task'[t].out = "ok"
FiresKernelEvent(t) ==
    task[t].st = "fire" /\ task'[t].st = "done" /\ task'[t].out \in KernelErrors
\* suite_started, sut_restart, suite_timeout and suite_completed
FiresSuiteStarted == suite_pc = "idle" /\ suite_pc' = "start"
FiresSutRestart == suite_pc # "rb_fire" /\ suite_pc' = "rb_fire"
FiresSuiteTimeout == suite_pc # "tmo_fire" /\ suite_pc' = "tmo_fire"
FiresSuiteCompleted == suite_pc = "final" /\ suite_pc' \in {"done", "failed"}
\* suite_started was fired and suite_completed was not
SuiteOpen == suite_pc \notin {"idle", "done", "failed"}

\* C31: the events follow the lifecycle order.  Per test attempt,
\* test_started is fired before the command runs (and so before every
\* test_stdout), and an attempt that appended its result fires test_completed
\* exactly when it raises no kernel-class error.  Per suite, suite_started is
\* the first event and suite_completed is fired exactly once, as the last
\* event, also when the suite ends by timeout or by a propagating error:
\* every test event, sut_restart and suite_timeout is fired between the two.
C31_EventOrder ==
    [][/\ \A t \in Tests :
             /\ (FiresTestStarted(t) \/ FiresTestCompleted(t)
                    \/ FiresKernelEvent(t)) => SuiteOpen
             /\ FiresTestCompleted(t) => Count(ts_results, t) >= 1
             /\ (task[t].st = "fire" /\ task'[t].st = "done"
                    /\ task'[t].out # "CancelledError") =>
                   (FiresTestCompleted(t) <=> ~FiresKernelEvent(t))
       /\ (FiresSutRestart \/ FiresSuiteTimeout) => SuiteOpen
       /\ FiresSuiteCompleted => Len(s_results) = 0
       /\ suite_pc' \in {"done", "failed"} => Len(s_results') = 1]_vars
====
